---- MODULE Spec2Model ----
(***************************************************************************)
(* Performance Optimizer (SillyTavern extension): the streaming phase      *)
(* controller and the RegExp compilation cache, modelled from              *)
(* src/unnamed/part_000 (the v2.0.0 snapshot; src/index.js and             *)
(* src/unnamed/part_001 are earlier snapshots of the same handlers).       *)
(*                                                                         *)
(* Variables named g* / s* / owner / timers' tags are history variables:   *)
(* they record what happened and are never read by the modelled code.      *)
(***************************************************************************)
EXTENDS Integers, Sequences, FiniteSets, TLC

\* ------------------------------------------------------------------ bounds

\* Number of generation sessions a behaviour may open (caps stats.regexSkipped).
MaxChat == 2
MaxSessions == 2
\* Number of setTimeout(..., 100) callbacks that may be pending at once.
MaxTimers == 2

\* RegExp objects the wrapper may compile in a behaviour.
MaxObjects == 4
\* Cache hits a behaviour may count (caps stats.regexCacheHits).
MaxHits == 2
\* Largest lastIndex a caller leaves on an object.
MaxLastIndex == 1
\* Messages of the chat that are in the DOM (their mesid attributes are 1..MaxMes).
MaxMes == 2
\* Placeholder elements the renderer may create in a behaviour.
MaxPlaceholders == 3
\* Iframes a behaviour may create (caps stats.iframesCreated).
MaxIframes == 2
\* Delayed rescans (setTimeout(..., 300) of CHAT_CHANGED) pending at once.
MaxRescans == 1
\* visibilitychange events with the page hidden
MaxHides == 2
\* Capacity of the cache.  The source sets 500 (part_000 line 150); the model
\* runs the same code with a capacity small enough to fill.
CACHE_MAX_SIZE == 2

\* ------------------------------------------------------------------ state

VARIABLES
    settings,                 \* extension_settings[MODULE_NAME]
    disabledExtensions,       \* extension_settings.disabledExtensions
    isGenerating,
    regexDisabled,
    regexWasAlreadyDisabled,
    stats,
    perfStreaming,            \* document.body has class 'perf-streaming'
    timers,                   \* pending setTimeout callbacks, oldest first
    \* history variables of the controller
    owner,                    \* who pushed each entry of disabledExtensions
    nSess,                    \* sessions opened so far
    sPhase,                   \* position of the current session
    sPure,                    \* no toggle / foreign 'regex' change since it opened
    sDefer,                   \* deferRegexDuringStreaming when it opened
    sPre,                     \* was 'regex' in disabledExtensions when it opened
    sTokens,                  \* tokens received in it (2 = two or more)
    sAdds,                    \* pushes of 'regex' by the controller in it
    sRemoves,                 \* splices of 'regex' by the controller in it
    sSched,                   \* reapplications it scheduled
    sRan,                     \* reapplications of it that have run
    sPerf,                    \* perf-streaming was switched on in it
    sEnd,                     \* the signal that closed it
    lastRemoved,              \* owner of the entry the controller spliced last
    \* the RegExp cache
    isWebKit,                 \* the user agent is AppleWebKit and not Chrome/
    windowRegExp,             \* window.RegExp: a host compiler or "Cached"
    OriginalRegExp,           \* saved compiler, "null" when not installed
    regexCache,               \* the Map: its entries in iteration order, each
                              \* with the key and the object it maps to
    made,                     \* objects the wrapper has compiled so far
    \* history variables of the cache
    installedOver,            \* window.RegExp at the moment the wrapper went in
    lastReq,                  \* the latest constructor request since then
    lastOp,                   \* the latest operation: "disable", "disable2"
                              \* (two in a row), "enable", "hostreq" (a request
                              \* the host compiler served after an enable),
                              \* "call" or "other"
    lastCleared,              \* entries the latest disable found in the cache
    lastCall,                 \* what the latest call without new returned
    tally,                    \* constructor requests the wrapper has returned
                              \* from, its compilations since clear(), and
                              \* whether the latest request ended in an error
    \* the messages of the chat, for the reapplication pass
    chatMessages,             \* the host's chat array: is_user of each entry
    mesElements,              \* #chat .mes[mesid=k] .mes_text, for each index
                              \* k: is it in the DOM, and its innerHTML
    emitted,                  \* mesIds of the CHARACTER_MESSAGE_RENDERED events
                              \* the reapplication pass has emitted
    rewrites,                 \* innerHTML assignments of the pass, per index
    \* the host page
    isMobile,                 \* the isMobile constant computed at module load
    quietOpen,                \* (history) a 'quiet' generation has started and
                              \* has not ended
    part,                     \* (history) the component of the extension the
                              \* behaviour exercises
    listKind,                 \* what extension_settings.disabledExtensions is:
                              \* "array", "undefined", or "object" (a value
                              \* that is no array and has no includes method)
    \* history variables of the settings
    readsInRow,               \* getSettings calls since the last other write (2 = more)
    sFirst,                   \* the stored settings before the first of them
    sBefore,                  \* the stored settings before the latest of them
    \* the lightweight HTML renderer
    mesText,                  \* #chat .mes[mesid=m] .mes_text: is it in the DOM,
                              \* and its code blocks and placeholders in order
    placeholders,             \* every placeholder element created so far: the
                              \* message it is attached to (0 = detached), the
                              \* iframes that are its children, and (history)
                              \* whether its registry entry ever had an iframe
    iframePlaceholders,       \* the Map, in iteration order
    iframeObserver,           \* "null" or "observer"
    observed,                 \* targets of the IntersectionObserver
    iframeSrcdoc,             \* srcdoc of every iframe element created so far
                              \* ("" = none, or emptied)
    iframeHeight,             \* style.height of every iframe element created so
                              \* far, in px (0 = not set)
    rescanTimers,             \* number of pending setTimeout(..., 300) callbacks
    \* history variables of the renderer
    lastEv,                   \* the message the latest step processed on an event
    changeMark,               \* while a rescan is pending: how many placeholders
                              \* existed at the latest CHAT_CHANGED
    \* tab-switch scroll preservation
    documentHidden,           \* document.hidden
    chatPresent,              \* document.getElementById('chat') finds an element
    chat,                     \* its scrollHeight, scrollTop and clientHeight
    savedScrollInfo,          \* NullInfo or the snapshot taken on hide
    rafQueue,                 \* requestAnimationFrame callbacks not yet run
    scrollListener,           \* onVisibilityChange listens to visibilitychange
    \* history variables of the scroll preservation
    hides,                    \* visibilitychange events seen with the page hidden
    restoredIds,              \* for each restore that ran, the hide it restored
    lastVis,                  \* the latest visibilitychange, NoVis after other steps
    lastRestore,              \* the latest restore, NoRestore after other steps
    \* init()
    initPc,                   \* the step of init() to run next
    initFailed,               \* the catch block of init() ran
    handlers,                 \* events of eventSource that have a listener of
                              \* the extension
    containmentStyle,         \* the <style id=perf-opt-containment> is in <head>
    blurStyle                 \* the <style id=perf-opt-no-blur> is in <head>

ctlVars == <<settings, disabledExtensions, isGenerating, regexDisabled,
             regexWasAlreadyDisabled, stats, perfStreaming, timers>>
histVars == <<owner, nSess, sPhase, sPure, sDefer, sPre, sTokens, sAdds,
              sRemoves, sSched, sRan, sPerf, sEnd, lastRemoved>>
cacheVars == <<isWebKit, windowRegExp, OriginalRegExp, regexCache, made,
               installedOver, lastReq, lastOp, lastCleared, lastCall, tally>>
envVars == <<isMobile, listKind, part, quietOpen>>
setVars == <<readsInRow, sFirst, sBefore>>
\* what the controller and the cache never touch
frameVars == <<mesText, placeholders, iframePlaceholders, iframeObserver,
               observed, iframeSrcdoc, iframeHeight, rescanTimers, lastEv,
               changeMark>>
scrollVars == <<documentHidden, chatPresent, chat, savedScrollInfo, rafQueue,
                scrollListener, hides, restoredIds, lastVis, lastRestore>>
loadVars == <<initPc, initFailed, handlers, containmentStyle, blurStyle>>
domVars == <<chatMessages, mesElements, emitted, rewrites>>
extVars == <<envVars, setVars, frameVars, scrollVars, loadVars, domVars>>
vars == <<ctlVars, histVars, cacheVars, extVars>>

\* ------------------------------------------------------------------ settings

defaultSettings ==
    [enabled |-> TRUE,
     deferRegexDuringStreaming |-> TRUE,
     cacheRegex |-> TRUE,
     cssContainment |-> TRUE,
     reduceStreamingEffects |-> TRUE,
     lightHtmlRenderer |-> TRUE,
     preventScrollJump |-> TRUE,
     globalBlurSuppression |-> isMobile]

\* extension_settings[MODULE_NAME] when nothing is stored under the key
\* (undefined); any other value of the variable is the stored object.
NoSettings == [undefined |-> TRUE]

\* Mutant: the defaults are assigned over the stored values.
getSettings_DefaultsWin(stored) ==
    LET obj == IF stored = NoSettings THEN defaultSettings ELSE stored IN
    [k \in (DOMAIN obj) \cup (DOMAIN defaultSettings) |->
        IF k \in DOMAIN defaultSettings THEN defaultSettings[k] ELSE obj[k]]

\* A missing object becomes a copy of the defaults; then the keys the
\* object lacks are backfilled and keys that are present keep their value.
\* The result is also what is stored afterwards.
getSettings(stored) ==
    LET obj == IF stored = NoSettings THEN defaultSettings ELSE stored IN
    [k \in (DOMAIN obj) \cup (DOMAIN defaultSettings) |->
        IF k \in DOMAIN obj THEN obj[k] ELSE defaultSettings[k]]

\* let stats = { ... } at module load
InitialStats ==
    [regexSkipped |-> 0, regexCacheHits |-> 0, regexCacheMisses |-> 0,
     iframesCreated |-> 0, iframesDestroyed |-> 0, scrollRestored |-> 0]

\* Stored settings that hold every key, with the keys outside `free` at
\* their defaults.
FullSettings(free) ==
    {st \in [DOMAIN defaultSettings -> BOOLEAN] :
        \A k \in (DOMAIN defaultSettings) \ free : st[k] = defaultSettings[k]}

\* ------------------------------------------------------------------ helpers

Kinds == {"normal", "swipe", "quiet"}
ExtNames == {"regex", "memory"}

includes(arr, x) == \E i \in 1..Len(arr) : arr[i] = x

\* Array.prototype.indexOf, 1-based; 0 stands for -1.
indexOf(arr, x) ==
    IF includes(arr, x)
    THEN CHOOSE i \in 1..Len(arr) :
            arr[i] = x /\ \A j \in 1..(i - 1) : arr[j] # x
    ELSE 0

\* Array.prototype.splice(idx, 1), idx 1-based.
splice1(arr, idx) ==
    [i \in 1..(Len(arr) - 1) |-> IF i < idx THEN arr[i] ELSE arr[i + 1]]

\* ------------------------------------------------------------------ optimization 1: defer regex during streaming

\* Array.isArray(extension_settings.disabledExtensions)
isArray == listKind = "array"

\* extension_settings.disabledExtensions?.includes('regex') ?? false
includesRegex == isArray /\ includes(disabledExtensions, "regex")

\* The .includes call of line 90 is a TypeError on a value without the
\* method; the exception leaves disableRegexForStreaming and its caller.
disableRegexForStreamingThrows ==
    getSettings(settings).deferRegexDuringStreaming /\ listKind = "object"

\* Mutant: the skip is counted whether or not the entry was appended.
disableRegexForStreaming_CountAlways ==
    LET s == getSettings(settings) IN
    IF ~s.deferRegexDuringStreaming
    THEN UNCHANGED <<regexWasAlreadyDisabled, disabledExtensions, stats>>
    ELSE /\ regexWasAlreadyDisabled' = includesRegex
         /\ stats' = [stats EXCEPT !.regexSkipped = @ + 1]
         /\ IF ~includesRegex /\ isArray
            THEN disabledExtensions' = Append(disabledExtensions, "regex")
            ELSE UNCHANGED disabledExtensions

disableRegexForStreaming ==
    LET s == getSettings(settings) IN
    IF ~s.deferRegexDuringStreaming
    THEN UNCHANGED <<regexWasAlreadyDisabled, disabledExtensions, stats>>
    ELSE /\ regexWasAlreadyDisabled' = includesRegex
         /\ IF ~includesRegex /\ isArray
            THEN /\ disabledExtensions' = Append(disabledExtensions, "regex")
                 /\ stats' = [stats EXCEPT !.regexSkipped = @ + 1]
            ELSE UNCHANGED <<disabledExtensions, stats>>

\* Mutant: the regexWasAlreadyDisabled test is dropped.
restoreRegexAfterStreaming_IgnoreFlag ==
    LET s   == getSettings(settings)
        idx == indexOf(disabledExtensions, "regex") IN
    IF ~s.deferRegexDuringStreaming
    THEN UNCHANGED disabledExtensions
    ELSE IF idx # 0
         THEN disabledExtensions' = splice1(disabledExtensions, idx)
         ELSE UNCHANGED disabledExtensions

restoreRegexAfterStreaming ==
    LET s   == getSettings(settings)
        idx == indexOf(disabledExtensions, "regex") IN
    IF ~s.deferRegexDuringStreaming
    THEN UNCHANGED disabledExtensions
    ELSE IF ~regexWasAlreadyDisabled /\ isArray /\ idx # 0
         THEN disabledExtensions' = splice1(disabledExtensions, idx)
         ELSE UNCHANGED disabledExtensions

\* messageFormatting(...): the host's pipeline; the regex scripts take part
\* unless 'regex' is among the disabled extensions.
messageFormatting(lastMesId) ==
    [mes |-> lastMesId, regex |-> ~includes(disabledExtensions, "regex")]

\* What the host left in a message's element while it streamed.
Streamed(k) == [mes |-> k, regex |-> FALSE]

NoElement == [present |-> FALSE, html |-> Streamed(0)]

\* The reapplication pass.  It rewrites the last message's DOM and emits
\* CHARACTER_MESSAGE_RENDERED; it reads and writes none of the controller's
\* state.
\* Mutant: the is_user test is dropped.
rerenderLastMessage_UserToo ==
    LET lastMesId == Len(chatMessages) - 1 IN
    /\ UNCHANGED <<settings, disabledExtensions, isGenerating, regexDisabled,
                   regexWasAlreadyDisabled, stats, perfStreaming, chatMessages>>
    /\ IF lastMesId < 0
       THEN UNCHANGED <<mesElements, emitted, rewrites>>
       ELSE IF mesElements[lastMesId].present
       THEN /\ mesElements' = [mesElements EXCEPT
                                 ![lastMesId].html = messageFormatting(lastMesId)]
            /\ emitted' = Append(emitted, lastMesId)
            /\ rewrites' = [rewrites EXCEPT ![lastMesId] = @ + 1]
       ELSE UNCHANGED <<mesElements, emitted, rewrites>>

rerenderLastMessage ==
    LET lastMesId == Len(chatMessages) - 1 IN
    /\ UNCHANGED <<settings, disabledExtensions, isGenerating, regexDisabled,
                   regexWasAlreadyDisabled, stats, perfStreaming, chatMessages>>
    /\ IF lastMesId < 0
       THEN UNCHANGED <<mesElements, emitted, rewrites>>
       ELSE IF chatMessages[lastMesId + 1].is_user
       THEN UNCHANGED <<mesElements, emitted, rewrites>>
       ELSE IF mesElements[lastMesId].present
       THEN /\ mesElements' = [mesElements EXCEPT
                                 ![lastMesId].html = messageFormatting(lastMesId)]
            /\ emitted' = Append(emitted, lastMesId)
            /\ rewrites' = [rewrites EXCEPT ![lastMesId] = @ + 1]
       ELSE UNCHANGED <<mesElements, emitted, rewrites>>

\* ------------------------------------------------------------------ optimization 5: streaming CSS mode

enableStreamingCSSMode == perfStreaming' = TRUE

disableStreamingCSSMode == perfStreaming' = FALSE

\* ------------------------------------------------------------------ event handlers

\* Mutant: the test for 'quiet' generations is dropped.
onGenerationStarted_NoQuietTest(type) ==
    LET s == getSettings(settings) IN
    /\ settings' = s
    /\ IF ~s.enabled
       THEN UNCHANGED isGenerating
       ELSE isGenerating' = TRUE
    /\ UNCHANGED <<disabledExtensions, regexDisabled, regexWasAlreadyDisabled,
                   stats, perfStreaming>>

onGenerationStarted(type) ==
    LET s == getSettings(settings) IN
    /\ settings' = s
    /\ IF ~s.enabled \/ type = "quiet"
       THEN UNCHANGED isGenerating
       ELSE isGenerating' = TRUE
    /\ UNCHANGED <<disabledExtensions, regexDisabled, regexWasAlreadyDisabled,
                   stats, perfStreaming>>

\* Mutant: the first-token guard is dropped, every token defers again.
onStreamTokenReceived_EveryToken ==
    LET s == getSettings(settings) IN
    /\ settings' = s
    /\ UNCHANGED <<isGenerating, timers>>
    /\ IF ~s.enabled \/ ~isGenerating \/ disableRegexForStreamingThrows
       THEN UNCHANGED <<disabledExtensions, regexDisabled,
                        regexWasAlreadyDisabled, stats, perfStreaming>>
       ELSE /\ disableRegexForStreaming
            /\ regexDisabled' = TRUE
            /\ IF s.reduceStreamingEffects
               THEN enableStreamingCSSMode
               ELSE UNCHANGED perfStreaming

\* Mutant: deferral starts without a generation having started.
onStreamTokenReceived_NoGenCheck ==
    LET s == getSettings(settings) IN
    /\ settings' = s
    /\ UNCHANGED <<isGenerating, timers>>
    /\ IF ~s.enabled \/ regexDisabled \/ disableRegexForStreamingThrows
       THEN UNCHANGED <<disabledExtensions, regexDisabled,
                        regexWasAlreadyDisabled, stats, perfStreaming>>
       ELSE /\ disableRegexForStreaming
            /\ regexDisabled' = TRUE
            /\ IF s.reduceStreamingEffects
               THEN enableStreamingCSSMode
               ELSE UNCHANGED perfStreaming

onStreamTokenReceived ==
    LET s == getSettings(settings) IN
    /\ settings' = s
    /\ UNCHANGED <<isGenerating, timers>>
    /\ IF ~s.enabled \/ ~isGenerating
       THEN UNCHANGED <<disabledExtensions, regexDisabled,
                        regexWasAlreadyDisabled, stats, perfStreaming>>
       ELSE IF ~regexDisabled /\ ~disableRegexForStreamingThrows
            THEN /\ disableRegexForStreaming
                 /\ regexDisabled' = TRUE
                 /\ IF s.reduceStreamingEffects
                    THEN enableStreamingCSSMode
                    ELSE UNCHANGED perfStreaming
            ELSE UNCHANGED <<disabledExtensions, regexDisabled,
                             regexWasAlreadyDisabled, stats, perfStreaming>>

\* Mutant: the reapplication is scheduled even when no token was streamed.
onGenerationEnded_AlwaysRerender ==
    /\ UNCHANGED <<regexWasAlreadyDisabled, stats>>
    /\ IF ~isGenerating
       THEN UNCHANGED <<settings, disabledExtensions, isGenerating,
                        regexDisabled, perfStreaming, timers>>
       ELSE /\ isGenerating' = FALSE
            /\ regexDisabled' = FALSE
            /\ settings' = getSettings(settings)
            /\ IF regexDisabled
               THEN restoreRegexAfterStreaming
               ELSE UNCHANGED disabledExtensions
            /\ disableStreamingCSSMode
            /\ timers' = Append(timers, "cur")

\* Mutant: the class perf-streaming is left on the body.
onGenerationEnded_KeepClass ==
    /\ UNCHANGED <<regexWasAlreadyDisabled, stats>>
    /\ IF ~isGenerating
       THEN UNCHANGED <<settings, disabledExtensions, isGenerating,
                        regexDisabled, perfStreaming, timers>>
       ELSE /\ isGenerating' = FALSE
            /\ IF ~regexDisabled
               THEN UNCHANGED <<settings, disabledExtensions, regexDisabled,
                                perfStreaming, timers>>
               ELSE /\ regexDisabled' = FALSE
                    /\ settings' = getSettings(settings)
                    /\ restoreRegexAfterStreaming
                    /\ UNCHANGED perfStreaming
                    /\ timers' = Append(timers, "cur")

onGenerationEnded ==
    /\ UNCHANGED <<regexWasAlreadyDisabled, stats>>
    /\ IF ~isGenerating
       THEN UNCHANGED <<settings, disabledExtensions, isGenerating,
                        regexDisabled, perfStreaming, timers>>
       ELSE /\ isGenerating' = FALSE
            /\ IF ~regexDisabled
               THEN UNCHANGED <<settings, disabledExtensions, regexDisabled,
                                perfStreaming, timers>>
               ELSE /\ regexDisabled' = FALSE
                    /\ settings' = getSettings(settings)
                    /\ restoreRegexAfterStreaming
                    /\ disableStreamingCSSMode
                    /\ timers' = Append(timers, "cur")

\* Mutant: a stop restores but schedules no reapplication.
onGenerationStopped_NoRerender ==
    /\ UNCHANGED <<regexWasAlreadyDisabled, stats, timers>>
    /\ IF ~isGenerating
       THEN UNCHANGED <<settings, disabledExtensions, isGenerating,
                        regexDisabled, perfStreaming>>
       ELSE /\ isGenerating' = FALSE
            /\ IF ~regexDisabled
               THEN UNCHANGED <<settings, disabledExtensions, regexDisabled,
                                perfStreaming>>
               ELSE /\ regexDisabled' = FALSE
                    /\ settings' = getSettings(settings)
                    /\ restoreRegexAfterStreaming
                    /\ disableStreamingCSSMode

onGenerationStopped ==
    /\ UNCHANGED <<regexWasAlreadyDisabled, stats>>
    /\ IF ~isGenerating
       THEN UNCHANGED <<settings, disabledExtensions, isGenerating,
                        regexDisabled, perfStreaming, timers>>
       ELSE /\ isGenerating' = FALSE
            /\ IF ~regexDisabled
               THEN UNCHANGED <<settings, disabledExtensions, regexDisabled,
                                perfStreaming, timers>>
               ELSE /\ regexDisabled' = FALSE
                    /\ settings' = getSettings(settings)
                    /\ restoreRegexAfterStreaming
                    /\ disableStreamingCSSMode
                    /\ timers' = Append(timers, "cur")

\* ------------------------------------------------------------------ settings UI (change handlers)

perf_opt_enabled_change ==
    settings' = [settings EXCEPT !.enabled = ~@]

perf_opt_defer_regex_change ==
    settings' = [settings EXCEPT !.deferRegexDuringStreaming = ~@]

perf_opt_reduce_effects_change ==
    settings' = [settings EXCEPT !.reduceStreamingEffects = ~@]

\* ------------------------------------------------------------------ optimization 2: RegExp compilation cache

\* Compilers the host page may have as window.RegExp when the extension loads.
HostCompilers == {"Native", "Shim"}

\* Argument values of a compile request: undefined, a string, or a RegExp
\* object (of which the code reads .source and .flags only).
Undefined == [t |-> "undef", s |-> "", f |-> ""]
Null == [t |-> "null", s |-> "null", f |-> ""]
Str(x) == [t |-> "str", s |-> x, f |-> ""]
Re(x, fl) == [t |-> "re", s |-> x, f |-> fl]

PatternStrings == {"a", "b"}
FlagStrings == {"g", "z"}
ValidFlagStrings == {"", "g"}

PatternInputs ==
    {Str(x) : x \in PatternStrings}
        \cup {Re(x, fl) : x \in PatternStrings, fl \in ValidFlagStrings}
FlagInputs ==
    {Undefined} \cup {Str(x) : x \in FlagStrings}

\* What the host compiler makes of (pattern, flags): the source and flags of
\* the new object, or a SyntaxError.
NativeSource(pattern) ==
    IF pattern.t = "re" THEN pattern.s
    ELSE IF pattern.t = "undef" \/ pattern.s = "" THEN "(?:)"
    ELSE pattern.s

NativeFlags(pattern, flags) ==
    IF flags.t = "undef"
    THEN IF pattern.t = "re" THEN pattern.f ELSE ""
    ELSE flags.s

NativeThrows(pattern, flags) ==
    NativeFlags(pattern, flags) \notin ValidFlagStrings

\* (pattern instanceof OriginalRegExp) ? pattern.source : String(pattern ?? '')
patternStr(pattern) ==
    IF pattern.t = "re" THEN pattern.s
    ELSE IF pattern.t \in {"undef", "null"} THEN ""
    ELSE pattern.s

\* (pattern instanceof OriginalRegExp && flags === undefined)
\*     ? pattern.flags : String(flags ?? '')
flagsStr(pattern, flags) ==
    IF pattern.t = "re" /\ flags.t = "undef" THEN pattern.f
    ELSE IF flags.t \in {"undef", "null"} THEN ""
    ELSE flags.s

cacheKey(pattern, flags) ==
    patternStr(pattern) \o "|||" \o flagsStr(pattern, flags)

\* regexCache.has(key) and the place of the entry regexCache.get(key) reads
cacheHas(key) == \E i \in 1..Len(regexCache) : regexCache[i].key = key

cacheAt(key) == CHOOSE i \in 1..Len(regexCache) : regexCache[i].key = key

\* const regex = new OriginalRegExp(pattern, flags): a fresh object, the
\* (made + 1)-th the wrapper compiled, with its cursor at the start.
NewEntry(pattern, flags) ==
    [key |-> cacheKey(pattern, flags),
     id |-> made + 1,
     source |-> NativeSource(pattern),
     flags |-> NativeFlags(pattern, flags),
     lastIndex |-> 0]

\* Mutant: room is made before the host compiler runs, so a request that
\* ends in a SyntaxError on a full cache has evicted the oldest entry.
Cached_EvictBeforeCompile(pattern, flags) ==
    LET key == cacheKey(pattern, flags) IN
    IF cacheHas(key)
    THEN /\ regexCache' = [regexCache EXCEPT ![cacheAt(key)].lastIndex = 0]
         /\ stats' = [stats EXCEPT !.regexCacheHits = @ + 1]
         /\ UNCHANGED made
    ELSE IF NativeThrows(pattern, flags)
    THEN /\ regexCache' = IF Len(regexCache) >= CACHE_MAX_SIZE
                          THEN Tail(regexCache) ELSE regexCache
         /\ UNCHANGED <<made, stats>>
    ELSE /\ made' = made + 1
         /\ stats' = [stats EXCEPT !.regexCacheMisses = @ + 1]
         /\ regexCache' =
              Append(IF Len(regexCache) >= CACHE_MAX_SIZE
                     THEN Tail(regexCache) ELSE regexCache,
                     NewEntry(pattern, flags))

\* Mutant: the miss is counted before the host compiler runs, so a request
\* that ends in a SyntaxError counts as a miss.
Cached_CountBeforeCompile(pattern, flags) ==
    LET key == cacheKey(pattern, flags) IN
    IF cacheHas(key)
    THEN /\ regexCache' = [regexCache EXCEPT ![cacheAt(key)].lastIndex = 0]
         /\ stats' = [stats EXCEPT !.regexCacheHits = @ + 1]
         /\ UNCHANGED made
    ELSE IF NativeThrows(pattern, flags)
    THEN /\ stats' = [stats EXCEPT !.regexCacheMisses = @ + 1]
         /\ UNCHANGED <<regexCache, made>>
    ELSE /\ made' = made + 1
         /\ stats' = [stats EXCEPT !.regexCacheMisses = @ + 1]
         /\ regexCache' =
              Append(IF Len(regexCache) >= CACHE_MAX_SIZE
                     THEN Tail(regexCache) ELSE regexCache,
                     NewEntry(pattern, flags))

\* Mutant: a hit returns the object with the lastIndex its last user left.
Cached_NoReset(pattern, flags) ==
    LET key == cacheKey(pattern, flags) IN
    IF cacheHas(key)
    THEN /\ stats' = [stats EXCEPT !.regexCacheHits = @ + 1]
         /\ UNCHANGED <<regexCache, made>>
    ELSE IF NativeThrows(pattern, flags)
    THEN UNCHANGED <<regexCache, made, stats>>
    ELSE /\ made' = made + 1
         /\ stats' = [stats EXCEPT !.regexCacheMisses = @ + 1]
         /\ regexCache' =
              Append(IF Len(regexCache) >= CACHE_MAX_SIZE
                     THEN Tail(regexCache) ELSE regexCache,
                     NewEntry(pattern, flags))

\* Mutant: a full cache evicts the newest entry instead of the oldest.
Cached_EvictNewest(pattern, flags) ==
    LET key == cacheKey(pattern, flags) IN
    IF cacheHas(key)
    THEN /\ regexCache' = [regexCache EXCEPT ![cacheAt(key)].lastIndex = 0]
         /\ stats' = [stats EXCEPT !.regexCacheHits = @ + 1]
         /\ UNCHANGED made
    ELSE IF NativeThrows(pattern, flags)
    THEN UNCHANGED <<regexCache, made, stats>>
    ELSE /\ made' = made + 1
         /\ stats' = [stats EXCEPT !.regexCacheMisses = @ + 1]
         /\ regexCache' =
              Append(IF Len(regexCache) >= CACHE_MAX_SIZE
                     THEN SubSeq(regexCache, 1, Len(regexCache) - 1)
                     ELSE regexCache,
                     NewEntry(pattern, flags))

\* Mutant: a hit moves the entry to the end of the Map (eviction by recency).
Cached_MoveOnHit(pattern, flags) ==
    LET key == cacheKey(pattern, flags) IN
    IF cacheHas(key)
    THEN /\ regexCache' =
              Append(splice1(regexCache, cacheAt(key)),
                     [regexCache[cacheAt(key)] EXCEPT !.lastIndex = 0])
         /\ stats' = [stats EXCEPT !.regexCacheHits = @ + 1]
         /\ UNCHANGED made
    ELSE IF NativeThrows(pattern, flags)
    THEN UNCHANGED <<regexCache, made, stats>>
    ELSE /\ made' = made + 1
         /\ stats' = [stats EXCEPT !.regexCacheMisses = @ + 1]
         /\ regexCache' =
              Append(IF Len(regexCache) >= CACHE_MAX_SIZE
                     THEN Tail(regexCache) ELSE regexCache,
                     NewEntry(pattern, flags))

\* The wrapper called with new.  A Map iterates in insertion order, so
\* keys().next().value is the head of the sequence and set() of a key that
\* is not present goes to its end.  A SyntaxError of the host compiler
\* leaves the function before anything is counted or stored.
Cached(pattern, flags) ==
    LET key == cacheKey(pattern, flags) IN
    IF cacheHas(key)
    THEN /\ regexCache' = [regexCache EXCEPT ![cacheAt(key)].lastIndex = 0]
         /\ stats' = [stats EXCEPT !.regexCacheHits = @ + 1]
         /\ UNCHANGED made
    ELSE IF NativeThrows(pattern, flags)
    THEN UNCHANGED <<regexCache, made, stats>>
    ELSE /\ made' = made + 1
         /\ stats' = [stats EXCEPT !.regexCacheMisses = @ + 1]
         /\ regexCache' =
              Append(IF Len(regexCache) >= CACHE_MAX_SIZE
                     THEN Tail(regexCache) ELSE regexCache,
                     NewEntry(pattern, flags))

\* Identity of the object a constructor request through the wrapper returns.
CachedReturn(pattern, flags) ==
    IF cacheHas(cacheKey(pattern, flags))
    THEN regexCache[cacheAt(cacheKey(pattern, flags))].id
    ELSE made + 1

\* Mutant: a call without new goes through the cache like a construction.
CachedCall_ThroughCache(pattern, flags) ==
    Cached(pattern, flags)

\* The wrapper called without new: return OriginalRegExp(pattern, flags).
\* The host compiler's object (or its SyntaxError) goes to the caller.
CachedCall(pattern, flags) ==
    UNCHANGED <<regexCache, made, stats>>

\* What that call hands back: the compiler that served it and its result.
CachedCallReturn(pattern, flags) ==
    [by |-> OriginalRegExp,
     source |-> NativeSource(pattern),
     flags |-> NativeFlags(pattern, flags),
     threw |-> NativeThrows(pattern, flags)]

\* Mutant: the test of the saved reference is missing.
enableRegexCache_NoInstalledGuard ==
    IF isWebKit
    THEN UNCHANGED <<OriginalRegExp, windowRegExp>>
    ELSE /\ OriginalRegExp' = windowRegExp
         /\ windowRegExp' = "Cached"

\* Mutant: the WebKit guard is missing.
enableRegexCache_NoWebKitGuard ==
    IF OriginalRegExp # "null"
    THEN UNCHANGED <<OriginalRegExp, windowRegExp>>
    ELSE /\ OriginalRegExp' = windowRegExp
         /\ windowRegExp' = "Cached"

enableRegexCache ==
    IF OriginalRegExp # "null" \/ isWebKit
    THEN UNCHANGED <<OriginalRegExp, windowRegExp>>
    ELSE /\ OriginalRegExp' = windowRegExp
         /\ windowRegExp' = "Cached"

\* Mutant: the entries survive the disable.
disableRegexCache_KeepEntries ==
    IF OriginalRegExp = "null"
    THEN UNCHANGED <<OriginalRegExp, windowRegExp, regexCache>>
    ELSE /\ windowRegExp' = OriginalRegExp
         /\ OriginalRegExp' = "null"
         /\ UNCHANGED regexCache

disableRegexCache ==
    IF OriginalRegExp = "null"
    THEN UNCHANGED <<OriginalRegExp, windowRegExp, regexCache>>
    ELSE /\ windowRegExp' = OriginalRegExp
         /\ OriginalRegExp' = "null"
         /\ regexCache' = <<>>

perf_opt_cache_regex_change(checked) ==
    /\ settings' = [settings EXCEPT !.cacheRegex = checked]
    /\ IF checked
       THEN enableRegexCache /\ UNCHANGED regexCache
       ELSE disableRegexCache

\* ------------------------------------------------------------------ optimization 6: lightweight HTML/iframe renderer

MesIds == 1..MaxMes

\* A message id as a handler receives it: the events carry a number,
\* getAttribute('mesid') gives a string.  String(id) is the decimal text of
\* v for both.
NumId(m) == [t |-> "num", v |-> m]
StrId(m) == [t |-> "str", v |-> m]
MesIdInputs == {NumId(m) : m \in MesIds} \cup {StrId(m) : m \in MesIds}
StringOf(id) == id.v

\* Texts of the code blocks a message may hold.
HtmlEscaped == "&lt;p&gt;<head>"
PlainCode == "print(1)"

\* ['html>', '<head>', '<body'].some(tag => text.includes(tag))
isHTMLContent(text) == text \in {HtmlEscaped}

\* tmp.innerHTML = text; tmp.value: character references are decoded.
DecodeEntities(text) == IF text = HtmlEscaped THEN "<p><head>" ELSE text

\* Nodes of a .mes_text: a <pre><code> block or a placeholder element.
Pre(text) == [k |-> "pre", text |-> text, processed |-> FALSE, ph |-> 0]
Ph(id) == [k |-> "ph", text |-> "", processed |-> FALSE, ph |-> id]

\* What the host may render as the text of a message.
Renderings ==
    {<<Pre(PlainCode), Pre(HtmlEscaped)>>}

\* The renderer's state as one value, so that the loops of the code can be
\* written as functions of it.
FrameState ==
    [mesText |-> mesText, placeholders |-> placeholders,
     reg |-> iframePlaceholders, obs |-> iframeObserver,
     observed |-> observed, srcdoc |-> iframeSrcdoc, stats |-> stats,
     settings |-> settings]

SetFrameState(F) ==
    /\ settings' = F.settings
    /\ mesText' = F.mesText
    /\ placeholders' = F.placeholders
    /\ iframePlaceholders' = F.reg
    /\ iframeObserver' = F.obs
    /\ observed' = F.observed
    /\ iframeSrcdoc' = F.srcdoc
    /\ stats' = F.stats

regHas(F, ph) == \E i \in 1..Len(F.reg) : F.reg[i].ph = ph

regAt(F, ph) == CHOOSE i \in 1..Len(F.reg) : F.reg[i].ph = ph

\* Windows a message event may name as its source: the contentWindow of
\* an iframe element, or a window that belongs to none of them.  An iframe
\* has a contentWindow while it is in the document, and null otherwise.
WindowOf(iframe) == [frame |-> iframe, live |-> TRUE]
TopWindow == [frame |-> 0, live |-> TRUE]
NullWindow == [frame |-> 0, live |-> FALSE]

contentWindow(iframe) ==
    IF \E p \in 1..Len(placeholders) :
           iframe \in placeholders[p].kids /\ placeholders[p].home # 0
    THEN WindowOf(iframe)
    ELSE NullWindow

\* e.data of a message event: null, or an object with a type and a height.
NullData == [isNull |-> TRUE, type |-> "", height |-> 0]
Data(type, height) == [isNull |-> FALSE, type |-> type, height |-> height]

\* Places of the registry the loop of onIframeResizeMessage stops at.
Matching(e) ==
    {i \in 1..Len(iframePlaceholders) :
        /\ iframePlaceholders[i].iframe # 0
        /\ contentWindow(iframePlaceholders[i].iframe) = e.source}

\* Mutant: the type of the message is not looked at.
onIframeResizeMessage_NoTypeTest(e) ==
    IF e.data.isNull THEN UNCHANGED iframeHeight
    ELSE IF Matching(e) = {} THEN UNCHANGED iframeHeight
    ELSE LET first == CHOOSE i \in Matching(e) : \A j \in Matching(e) : i <= j IN
         iframeHeight' =
             [iframeHeight EXCEPT ![iframePlaceholders[first].iframe] = e.data.height]

\* The handler of window's message event: the first entry in iteration
\* order whose iframe's contentWindow is e.source gets the height.
onIframeResizeMessage(e) ==
    IF e.data.isNull \/ e.data.type # "perf-opt-resize" THEN UNCHANGED iframeHeight
    ELSE IF Matching(e) = {} THEN UNCHANGED iframeHeight
    ELSE LET first == CHOOSE i \in Matching(e) : \A j \in Matching(e) : i <= j IN
         iframeHeight' =
             [iframeHeight EXCEPT ![iframePlaceholders[first].iframe] = e.data.height]

\* The document of an iframe: the markup between a fixed head and the
\* script that posts the height.
buildIframeSrcdoc(htmlContent) ==
    "<!DOCTYPE html><body>" \o htmlContent \o "<script>sendHeight</script></body></html>"

\* Mutant: the data.iframe test is dropped.
createIframeForPlaceholder_NoGuard(F, placeholder) ==
    IF ~regHas(F, placeholder) THEN F
    ELSE LET iframe == F.stats.iframesCreated + 1 IN
         [F EXCEPT
            !.srcdoc[iframe] = buildIframeSrcdoc(F.reg[regAt(F, placeholder)].htmlContent),
            !.placeholders[placeholder].kids = {iframe},
            !.placeholders[placeholder].ever = TRUE,
            !.reg[regAt(F, placeholder)].iframe = iframe,
            !.stats.iframesCreated = @ + 1]

\* The new iframe is the (iframesCreated + 1)-th; textContent = '' drops
\* whatever the placeholder held before the iframe is appended.
createIframeForPlaceholder(F, placeholder) ==
    IF ~regHas(F, placeholder) THEN F
    ELSE IF F.reg[regAt(F, placeholder)].iframe # 0 THEN F
    ELSE LET iframe == F.stats.iframesCreated + 1 IN
         [F EXCEPT
            !.srcdoc[iframe] = buildIframeSrcdoc(F.reg[regAt(F, placeholder)].htmlContent),
            !.placeholders[placeholder].kids = {iframe},
            !.placeholders[placeholder].ever = TRUE,
            !.reg[regAt(F, placeholder)].iframe = iframe,
            !.stats.iframesCreated = @ + 1]

\* Mutant: the removal is not counted.
destroyIframeForPlaceholder_NoCount(F, placeholder) ==
    IF ~regHas(F, placeholder) THEN F
    ELSE IF F.reg[regAt(F, placeholder)].iframe = 0 THEN F
    ELSE [F EXCEPT
            !.srcdoc[F.reg[regAt(F, placeholder)].iframe] = "",
            !.placeholders[placeholder].kids = {},
            !.reg[regAt(F, placeholder)].iframe = 0]

destroyIframeForPlaceholder(F, placeholder) ==
    IF ~regHas(F, placeholder) THEN F
    ELSE IF F.reg[regAt(F, placeholder)].iframe = 0 THEN F
    ELSE [F EXCEPT
            !.srcdoc[F.reg[regAt(F, placeholder)].iframe] = "",
            !.placeholders[placeholder].kids = {},
            !.reg[regAt(F, placeholder)].iframe = 0,
            !.stats.iframesDestroyed = @ + 1]

\* iframeObserver is created on first use.
getIframeObserver(F) ==
    IF F.obs # "null" THEN F ELSE [F EXCEPT !.obs = "observer", !.observed = {}]

\* The IntersectionObserver callback for one entry.
IntersectionEntry(F, placeholder, isIntersecting) ==
    IF ~regHas(F, placeholder) THEN F
    ELSE IF isIntersecting
         THEN createIframeForPlaceholder(F, placeholder)
         ELSE destroyIframeForPlaceholder(F, placeholder)

\* Places of the registry whose owner is mesId.
OwnedBy(reg, mesId) ==
    {i \in 1..Len(reg) : StringOf(reg[i].mesId) = StringOf(mesId)}

\* Mutant: the owners are compared without String().
OwnedBy_Strict(reg, mesId) ==
    {i \in 1..Len(reg) : reg[i].mesId = mesId}

Keep(seq, places) ==
    LET kept == {i \in 1..Len(seq) : i \in places}
        nth(n) == CHOOSE i \in kept : Cardinality({j \in kept : j < i}) = n - 1 IN
    [n \in 1..Cardinality(kept) |-> seq[nth(n)]]

\* Teardown of the entries `gone` of the registry: unobserve, remove the
\* iframe, remove the placeholder from the DOM when it is connected, then
\* delete the entries.
TearDown(F, gone) ==
    LET gonePh == {F.reg[i].ph : i \in gone}
        goneIframes == {F.reg[i].iframe : i \in gone} IN
    [F EXCEPT
       !.srcdoc = [iframe \in DOMAIN @ |->
                     IF iframe \in goneIframes THEN "" ELSE @[iframe]],
       !.observed = IF F.obs # "null" THEN @ \ gonePh ELSE @,
       !.placeholders =
           [p \in DOMAIN @ |->
              IF p \in gonePh
              THEN [home |-> 0,
                    kids |-> @[p].kids \ {F.reg[regAt(F, p)].iframe},
                    ever |-> FALSE]
              ELSE @[p]],
       !.mesText =
           [m \in DOMAIN @ |->
              [@[m] EXCEPT !.nodes =
                  Keep(@, {i \in 1..Len(@) : ~(@[i].k = "ph" /\ @[i].ph \in gonePh)})]],
       !.reg = Keep(@, (1..Len(@)) \ gone)]

cleanupPlaceholdersForMessage(F, mesId) ==
    TearDown(F, OwnedBy(F.reg, mesId))

\* The body of the loop of processMessageForIframes for the code block at
\* place i of message m: a new placeholder takes the place of the <pre>, is
\* registered and observed.
RegisterBlock(F, m, mesId, i) ==
    LET placeholder == Len(F.placeholders) + 1
        G == getIframeObserver(F) IN
    [G EXCEPT
       !.placeholders = Append(@, [home |-> m, kids |-> {}, ever |-> FALSE]),
       !.reg = Append(@, [ph |-> placeholder,
                          htmlContent |-> DecodeEntities(F.mesText[m].nodes[i].text),
                          iframe |-> 0,
                          mesId |-> mesId]),
       !.mesText[m].nodes[i] = Ph(placeholder),
       !.observed = @ \cup {placeholder}]

RECURSIVE ScanBlocks(_, _, _, _)
ScanBlocks(F, m, mesId, i) ==
    IF i > Len(F.mesText[m].nodes) THEN F
    ELSE LET node == F.mesText[m].nodes[i] IN
         IF node.k = "pre" /\ isHTMLContent(node.text) /\ ~node.processed
         THEN ScanBlocks(RegisterBlock(F, m, mesId, i), m, mesId, i + 1)
         ELSE ScanBlocks(F, m, mesId, i + 1)

\* Does the call get past its two early returns?
ProcessRuns(F, mesId) ==
    /\ getSettings(F.settings).enabled
    /\ getSettings(F.settings).lightHtmlRenderer
    /\ StringOf(mesId) \in MesIds
    /\ F.mesText[StringOf(mesId)].present

processMessageForIframes(F, mesId) ==
    LET G == [F EXCEPT !.settings = getSettings(@)] IN
    IF ~ProcessRuns(F, mesId) THEN G
    ELSE ScanBlocks(cleanupPlaceholdersForMessage(G, mesId),
                    StringOf(mesId), mesId, 1)

RECURSIVE ProcessFrom(_, _)
ProcessFrom(F, m) ==
    IF m > MaxMes THEN F
    ELSE IF F.mesText[m].present
         THEN ProcessFrom(processMessageForIframes(F, StrId(m)), m + 1)
         ELSE ProcessFrom(F, m + 1)

processAllMessagesForIframes(F) ==
    LET G == [F EXCEPT !.settings = getSettings(@)] IN
    IF ~G.settings.enabled \/ ~G.settings.lightHtmlRenderer
    THEN G
    ELSE ProcessFrom(G, 1)

\* Mutant: the teardown starts the iframe counters again.
cleanupAllIframes_ResetCounters(F) ==
    [F EXCEPT
       !.obs = "null",
       !.observed = {},
       !.srcdoc = [iframe \in DOMAIN @ |->
                     IF \E i \in 1..Len(F.reg) : F.reg[i].iframe = iframe
                     THEN "" ELSE @[iframe]],
       !.placeholders =
           [p \in DOMAIN @ |->
              IF regHas(F, p)
              THEN [@[p] EXCEPT !.kids = @ \ {F.reg[regAt(F, p)].iframe},
                                !.ever = FALSE]
              ELSE @[p]],
       !.reg = <<>>,
       !.stats.iframesCreated = 0,
       !.stats.iframesDestroyed = 0]

\* Mutant: the Map is not cleared.
cleanupAllIframes_KeepRegistry(F) ==
    [F EXCEPT
       !.obs = "null",
       !.observed = {},
       !.srcdoc = [iframe \in DOMAIN @ |->
                     IF \E i \in 1..Len(F.reg) : F.reg[i].iframe = iframe
                     THEN "" ELSE @[iframe]],
       !.placeholders =
           [p \in DOMAIN @ |->
              IF regHas(F, p)
              THEN [@[p] EXCEPT !.kids = @ \ {F.reg[regAt(F, p)].iframe}]
              ELSE @[p]]]

cleanupAllIframes(F) ==
    [F EXCEPT
       !.obs = "null",
       !.observed = {},
       !.srcdoc = [iframe \in DOMAIN @ |->
                     IF \E i \in 1..Len(F.reg) : F.reg[i].iframe = iframe
                     THEN "" ELSE @[iframe]],
       !.placeholders =
           [p \in DOMAIN @ |->
              IF regHas(F, p)
              THEN [@[p] EXCEPT !.kids = @ \ {F.reg[regAt(F, p)].iframe},
                                !.ever = FALSE]
              ELSE @[p]],
       !.reg = <<>>]

perf_opt_light_html_change(checked) ==
    LET F == [FrameState EXCEPT !.settings.lightHtmlRenderer = checked] IN
    SetFrameState(IF checked
                  THEN processAllMessagesForIframes(F)
                  ELSE cleanupAllIframes(F))

\* ------------------------------------------------------------------ optimization 7: tab-switch scroll preservation

Max(a, b) == IF a > b THEN a ELSE b

Least(a, b) == IF a < b THEN a ELSE b

\* Geometries of #chat: scrollTop lies in the scrollable range.
Layouts ==
    {c \in [scrollHeight : {1000, 1200}, scrollTop : {0, 700, 900},
            clientHeight : {300}] :
        c.scrollTop <= c.scrollHeight - c.clientHeight}

NullInfo == [null |-> TRUE]

\* The object stored on hide.  `hide` is a history field: the number of the
\* hide event that took the snapshot.
Snapshot(c, n) ==
    [scrollTop |-> c.scrollTop,
     scrollHeight |-> c.scrollHeight,
     clientHeight |-> c.clientHeight,
     distanceFromBottom |-> c.scrollHeight - c.scrollTop - c.clientHeight,
     hide |-> n]

\* chatElement.scrollTop = v: the browser keeps the value in the scrollable
\* range.
AssignScrollTop(c, v) ==
    [c EXCEPT !.scrollTop = Least(Max(0, v), c.scrollHeight - c.clientHeight)]

\* Mutant: the saved scrollTop is put back as it was.
newScrollTop_Absolute(c, info) == info.scrollTop

newScrollTop(c, info) ==
    c.scrollHeight - c.clientHeight - info.distanceFromBottom

\* A callback handed to requestAnimationFrame: the outer arrow function or
\* the inner one.  `frames` is a history field: the animation frames that
\* have run since the show that asked for it.
Callback(stage, info, frames) == [stage |-> stage, info |-> info, frames |-> frames]

\* Mutant: the snapshot is not cleared on show.
onVisibilityChange_KeepSnapshot(hidden) ==
    LET s == getSettings(settings) IN
    /\ settings' = s
    /\ IF ~s.enabled \/ ~s.preventScrollJump \/ ~chatPresent
       THEN UNCHANGED <<savedScrollInfo, rafQueue>>
       ELSE IF hidden
       THEN /\ savedScrollInfo' = Snapshot(chat, hides + 1)
            /\ UNCHANGED rafQueue
       ELSE IF savedScrollInfo = NullInfo
       THEN UNCHANGED <<savedScrollInfo, rafQueue>>
       ELSE /\ UNCHANGED savedScrollInfo
            /\ rafQueue' = Append(rafQueue, Callback("outer", savedScrollInfo, 0))

\* onVisibilityChange, with document.hidden as the event left it.
onVisibilityChange(hidden) ==
    LET s == getSettings(settings) IN
    /\ settings' = s
    /\ IF ~s.enabled \/ ~s.preventScrollJump \/ ~chatPresent
       THEN UNCHANGED <<savedScrollInfo, rafQueue>>
       ELSE IF hidden
       THEN /\ savedScrollInfo' = Snapshot(chat, hides + 1)
            /\ UNCHANGED rafQueue
       ELSE IF savedScrollInfo = NullInfo
       THEN UNCHANGED <<savedScrollInfo, rafQueue>>
       ELSE /\ savedScrollInfo' = NullInfo
            /\ rafQueue' = Append(rafQueue, Callback("outer", savedScrollInfo, 0))

NoRestore == [valid |-> FALSE]

\* The inner callback.  R carries #chat, stats.scrollRestored and the
\* history of the restores.
RestoreCallback(R, cb) ==
    [chat |-> AssignScrollTop(R.chat, Max(0, newScrollTop(R.chat, cb.info))),
     scrollRestored |-> R.scrollRestored + 1,
     ids |-> Append(R.ids, cb.info.hide),
     last |-> [valid |-> TRUE, info |-> cb.info,
               scrollHeight |-> R.chat.scrollHeight,
               clientHeight |-> R.chat.clientHeight,
               frames |-> cb.frames + 1]]

\* One animation frame runs the callbacks that were requested before it, in
\* the order of the requests.
RECURSIVE RunCallbacks(_, _, _)
RunCallbacks(q, i, R) ==
    IF i > Len(q) THEN R
    ELSE IF q[i].stage = "inner"
         THEN RunCallbacks(q, i + 1, RestoreCallback(R, q[i]))
         ELSE RunCallbacks(q, i + 1, R)

\* What the outer callbacks of a frame request for the next one.
RECURSIVE Requested(_, _)
Requested(q, i) ==
    IF i > Len(q) THEN <<>>
    ELSE IF q[i].stage = "outer"
         THEN <<Callback("inner", q[i].info, q[i].frames + 1)>> \o Requested(q, i + 1)
         ELSE Requested(q, i + 1)

enableScrollPreservation == scrollListener' = TRUE /\ UNCHANGED savedScrollInfo

disableScrollPreservation == scrollListener' = FALSE /\ savedScrollInfo' = NullInfo

perf_opt_scroll_preserve_change(checked) ==
    /\ settings' = [settings EXCEPT !.preventScrollJump = checked]
    /\ IF checked THEN enableScrollPreservation ELSE disableScrollPreservation

\* ------------------------------------------------------------------ optimizations 3, 4 and 8: injected styles

enableCSSContainment == containmentStyle' = TRUE

enableGlobalBlurSuppression == blurStyle' = TRUE

\* ------------------------------------------------------------------ history bookkeeping

Min(a, b) == IF a < b THEN a ELSE b

B2N(b) == IF b THEN 1 ELSE 0

pushed == Len(disabledExtensions') > Len(disabledExtensions)

spliced == Len(disabledExtensions') < Len(disabledExtensions)

\* Owner of the first 'regex' entry, "absent" when there is none.
regexOwner ==
    IF includes(disabledExtensions, "regex")
    THEN owner[indexOf(disabledExtensions, "regex")]
    ELSE "absent"

scheduled == Len(timers') > Len(timers)

sessionVars == <<sPhase, sPure, sDefer, sPre, sTokens, sAdds, sRemoves, sSched,
                 sRan, sPerf, sEnd, lastRemoved>>

\* A session opens when a foreground 'started' is accepted and no session is
\* deferring; entries and callbacks left by earlier sessions are marked old.
OpenSession ==
    /\ nSess' = nSess + 1
    /\ sPhase' = "started"
    /\ sPure' = TRUE
    /\ sDefer' = getSettings(settings).deferRegexDuringStreaming
    /\ sPre' = regexOwner
    /\ sTokens' = 0
    /\ sAdds' = 0
    /\ sRemoves' = 0
    /\ sSched' = 0
    /\ sRan' = 0
    /\ sPerf' = FALSE
    /\ sEnd' = "none"
    /\ lastRemoved' = "none"
    /\ owner' = [i \in 1..Len(owner) |-> IF owner[i] = "ctl" THEN "old" ELSE owner[i]]
    /\ timers' = [i \in 1..Len(timers) |-> "old"]

\* ------------------------------------------------------------------ steps of the controller

GENERATION_STARTED(type) ==
    /\ UNCHANGED <<cacheVars, extVars>>
    /\ nSess < MaxSessions
    /\ onGenerationStarted(type)
    /\ IF isGenerating' /\ ~regexDisabled /\ type # "quiet"
          /\ getSettings(settings).enabled
       THEN OpenSession
       ELSE UNCHANGED <<timers, owner, nSess, sessionVars>>

STREAM_TOKEN_RECEIVED ==
    /\ UNCHANGED <<cacheVars, extVars>>
    /\ onStreamTokenReceived
    /\ owner' = IF pushed THEN Append(owner, "ctl") ELSE owner
    /\ IF sPhase \in {"started", "token"}
       THEN /\ sPhase' = "token"
            /\ sTokens' = Min(2, sTokens + 1)
            /\ sAdds' = sAdds + B2N(pushed)
            /\ sPerf' = (sPerf \/ (perfStreaming' /\ ~perfStreaming))
       ELSE UNCHANGED <<sPhase, sTokens, sAdds, sPerf>>
    /\ UNCHANGED <<nSess, sPure, sDefer, sPre, sRemoves, sSched, sRan, sEnd,
                   lastRemoved>>

EndBookkeeping(signal) ==
    /\ owner' = IF spliced
                THEN splice1(owner, indexOf(disabledExtensions, "regex"))
                ELSE owner
    /\ IF isGenerating
       THEN /\ sPhase' = "done"
            /\ sEnd' = signal
            /\ sRemoves' = sRemoves + B2N(spliced)
            /\ sSched' = sSched + B2N(scheduled)
            /\ lastRemoved' = IF spliced THEN regexOwner ELSE lastRemoved
       ELSE UNCHANGED <<sPhase, sEnd, sRemoves, sSched, lastRemoved>>
    /\ UNCHANGED <<nSess, sPure, sDefer, sPre, sTokens, sAdds, sRan, sPerf>>

GENERATION_ENDED ==
    /\ UNCHANGED <<cacheVars, extVars>>
    /\ Len(timers) < MaxTimers
    /\ onGenerationEnded
    /\ EndBookkeeping("ended")

GENERATION_STOPPED ==
    /\ UNCHANGED <<cacheVars, extVars>>
    /\ Len(timers) < MaxTimers
    /\ onGenerationStopped
    /\ EndBookkeeping("stopped")

\* The setTimeout(..., 100) callback of onGenerationEnded / onGenerationStopped.
RerenderTimeout ==
    /\ UNCHANGED <<cacheVars, envVars, setVars, frameVars, scrollVars, loadVars>>
    /\ timers # <<>>
    /\ timers' = Tail(timers)
    /\ rerenderLastMessage
    /\ sRan' = sRan + B2N(Head(timers) = "cur")
    /\ UNCHANGED <<owner, nSess, sPhase, sPure, sDefer, sPre, sTokens, sAdds,
                   sRemoves, sSched, sPerf, sEnd, lastRemoved>>

ToggleEnabled ==
    /\ UNCHANGED <<cacheVars, extVars>>
    /\ perf_opt_enabled_change
    /\ sPure' = FALSE
    /\ UNCHANGED <<disabledExtensions, isGenerating, regexDisabled,
                   regexWasAlreadyDisabled, stats, perfStreaming, timers>>
    /\ UNCHANGED <<owner, nSess, sPhase, sDefer, sPre, sTokens, sAdds, sRemoves,
                   sSched, sRan, sPerf, sEnd, lastRemoved>>

ToggleDeferRegex ==
    /\ UNCHANGED <<cacheVars, extVars>>
    /\ perf_opt_defer_regex_change
    /\ sPure' = FALSE
    /\ UNCHANGED <<disabledExtensions, isGenerating, regexDisabled,
                   regexWasAlreadyDisabled, stats, perfStreaming, timers>>
    /\ UNCHANGED <<owner, nSess, sPhase, sDefer, sPre, sTokens, sAdds, sRemoves,
                   sSched, sRan, sPerf, sEnd, lastRemoved>>

ToggleReduceEffects ==
    /\ UNCHANGED <<cacheVars, extVars>>
    /\ perf_opt_reduce_effects_change
    /\ UNCHANGED <<disabledExtensions, isGenerating, regexDisabled,
                   regexWasAlreadyDisabled, stats, perfStreaming, timers>>
    /\ UNCHANGED histVars

\* ------------------------------------------------------------------ other actors on the shared list

\* The host (or another extension) disables extension `name`: it is listed
\* once.
OtherDisablesExtension(name) ==
    /\ UNCHANGED <<cacheVars, extVars>>
    /\ isArray
    /\ ~includes(disabledExtensions, name)
    /\ disabledExtensions' = Append(disabledExtensions, name)
    /\ owner' = Append(owner, "ext")
    /\ sPure' = (sPure /\ name # "regex")
    /\ UNCHANGED <<settings, isGenerating, regexDisabled,
                   regexWasAlreadyDisabled, stats, perfStreaming, timers>>
    /\ UNCHANGED <<nSess, sPhase, sDefer, sPre, sTokens, sAdds, sRemoves,
                   sSched, sRan, sPerf, sEnd, lastRemoved>>

\* The host (or another extension) enables extension `name` again.
OtherEnablesExtension(name) ==
    /\ UNCHANGED <<cacheVars, extVars>>
    /\ includes(disabledExtensions, name)
    /\ disabledExtensions' = splice1(disabledExtensions, indexOf(disabledExtensions, name))
    /\ owner' = splice1(owner, indexOf(disabledExtensions, name))
    /\ sPure' = (sPure /\ name # "regex")
    /\ UNCHANGED <<settings, isGenerating, regexDisabled,
                   regexWasAlreadyDisabled, stats, perfStreaming, timers>>
    /\ UNCHANGED <<nSess, sPhase, sDefer, sPre, sTokens, sAdds, sRemoves,
                   sSched, sRan, sPerf, sEnd, lastRemoved>>

\* ------------------------------------------------------------------ state after init()

\* No getSettings call is being followed.
SettingsIdle ==
    /\ readsInRow = 0
    /\ sFirst = NoSettings
    /\ sBefore = NoSettings

\* lastEv is the message whose id the latest step passed to
\* processMessageForIframes as an event's payload; other steps leave NoEv or
\* EnterAgain.
NoEv == [kind |-> "none", mes |-> 0]

NoVis == [kind |-> "none", handled |-> FALSE]

\* The scroll preservation when nothing has happened to the page yet.
ScrollIdle ==
    /\ documentHidden = FALSE
    /\ chatPresent = TRUE
    /\ chat = [scrollHeight |-> 1000, scrollTop |-> 700, clientHeight |-> 300]
    /\ savedScrollInfo = NullInfo
    /\ rafQueue = <<>>
    /\ scrollListener = FALSE
    /\ hides = 0
    /\ restoredIds = <<>>
    /\ lastVis = NoVis
    /\ lastRestore = NoRestore

\* The events init() subscribes to, in the order of its calls.
CoreHooks ==
    <<"GENERATION_STARTED", "STREAM_TOKEN_RECEIVED", "GENERATION_ENDED",
      "GENERATION_STOPPED">>

RendererHooks ==
    <<"CHARACTER_MESSAGE_RENDERED", "USER_MESSAGE_RENDERED", "MESSAGE_UPDATED",
      "MESSAGE_SWIPED", "MORE_MESSAGES_LOADED", "CHAT_CHANGED">>

Range(f) == {f[i] : i \in DOMAIN f}

\* The calls of init() inside its try block, in order.
InitOrder ==
    <<"getSettings", "createSettingsUI">> \o CoreHooks
        \o <<"enableRegexCache", "enableCSSContainment">> \o RendererHooks
        \o <<"enableScrollPreservation", "enableGlobalBlurSuppression", "loaded">>

InitDone == Len(InitOrder) + 1

\* init() has returned without an error.
\* No message yet, nothing emitted.
DomIdle ==
    /\ chatMessages = <<>>
    /\ mesElements = [k \in 0..(MaxChat - 1) |-> NoElement]
    /\ emitted = <<>>
    /\ rewrites = [k \in 0..(MaxChat - 1) |-> 0]

LoadIdle ==
    /\ initPc = InitDone
    /\ initFailed = FALSE
    /\ handlers = Range(CoreHooks) \cup Range(RendererHooks)
    /\ containmentStyle = FALSE
    /\ blurStyle = FALSE

\* The renderer before any message was scanned.
FrameIdle ==
    /\ mesText = [m \in MesIds |-> [present |-> FALSE, nodes |-> <<>>]]
    /\ placeholders = <<>>
    /\ iframePlaceholders = <<>>
    /\ iframeObserver = "null"
    /\ observed = {}
    /\ iframeSrcdoc = [iframe \in 1..MaxIframes |-> ""]
    /\ iframeHeight = [iframe \in 1..MaxIframes |-> 0]
    /\ rescanTimers = 0
    /\ lastEv = NoEv
    /\ changeMark = 0

NoReq == [valid |-> FALSE, source |-> "", flags |-> "", ret |-> 0,
          hit |-> FALSE, repeat |-> FALSE, dirty |-> FALSE, evicted |-> 0,
          evictedJustHit |-> FALSE]

NoCall == [by |-> "null", source |-> "", flags |-> "", threw |-> FALSE]

NoTally == [completed |-> 0, sinceClear |-> 0, threw |-> FALSE]

\* init() installs the wrapper over the host's compiler when the master
\* switch and cacheRegex are on (enableRegexCache refuses on WebKit).
InitCache(host) ==
    /\ IF settings.enabled /\ settings.cacheRegex /\ ~isWebKit
       THEN /\ windowRegExp = "Cached"
            /\ OriginalRegExp = host
            /\ installedOver = host
       ELSE /\ windowRegExp = host
            /\ OriginalRegExp = "null"
            /\ installedOver = "null"
    /\ regexCache = <<>>
    /\ made = 0
    /\ lastReq = NoReq
    /\ lastOp = "other"
    /\ lastCleared = 0
    /\ lastCall = NoCall
    /\ tally = NoTally

\* The cache when the module is loaded and init() has not run: the Map is
\* empty, OriginalRegExp is null and window.RegExp is the host's compiler.
CacheAtLoad(host) ==
    /\ windowRegExp = host
    /\ OriginalRegExp = "null"
    /\ installedOver = "null"
    /\ regexCache = <<>>
    /\ made = 0
    /\ lastReq = NoReq
    /\ lastOp = "other"
    /\ lastCleared = 0
    /\ lastCall = NoCall
    /\ tally = NoTally

\* ------------------------------------------------------------------ specification of the controller

\* Lists another actor may have left before the extension loads.
InitialLists ==
    {<<>>, <<"regex">>, <<"memory">>, <<"memory", "regex">>, <<"regex", "memory">>}

\* After init(): the stored settings hold every key (getSettings ran), with
\* whatever values were persisted; the session state is its module-load value.
InitBody ==
    /\ isMobile = FALSE
    /\ part = "controller"
    /\ quietOpen = FALSE
    /\ SettingsIdle
    /\ FrameIdle
    /\ ScrollIdle
    /\ LoadIdle
    /\ DomIdle
    /\ settings \in FullSettings({"enabled", "deferRegexDuringStreaming",
                                  "reduceStreamingEffects"})
    /\ disabledExtensions \in InitialLists
    /\ isGenerating = FALSE
    /\ regexDisabled = FALSE
    /\ regexWasAlreadyDisabled = FALSE
    /\ stats = InitialStats
    /\ perfStreaming = FALSE
    /\ timers = <<>>
    /\ owner = [i \in 1..Len(disabledExtensions) |-> "ext"]
    /\ nSess = 0
    /\ sPhase = "none"
    /\ sPure = TRUE
    /\ sDefer = FALSE
    /\ sPre = "absent"
    /\ sTokens = 0
    /\ sAdds = 0
    /\ sRemoves = 0
    /\ sSched = 0
    /\ sRan = 0
    /\ sPerf = FALSE
    /\ sEnd = "none"
    /\ lastRemoved = "none"
    /\ isWebKit = FALSE
    /\ InitCache("Native")

Init ==
    /\ InitBody
    /\ listKind = "array"

Next ==
    \/ \E type \in Kinds : GENERATION_STARTED(type)
    \/ STREAM_TOKEN_RECEIVED
    \/ GENERATION_ENDED
    \/ GENERATION_STOPPED
    \/ RerenderTimeout
    \/ ToggleEnabled
    \/ ToggleDeferRegex
    \/ ToggleReduceEffects
    \/ \E name \in ExtNames : OtherDisablesExtension(name)
    \/ \E name \in ExtNames : OtherEnablesExtension(name)

Spec == Init /\ [][Next]_vars

\* The same steps, when extension_settings.disabledExtensions may be
\* something else than an array.
ListInit ==
    /\ InitBody
    /\ listKind \in {"array", "undefined", "object"}
    /\ listKind # "array" => disabledExtensions = <<>>

ListSpec == ListInit /\ [][Next]_vars

\* ------------------------------------------------------------------ specification of the controller with background generations

quietFrame ==
    <<histVars, cacheVars, setVars, frameVars, scrollVars, loadVars, domVars,
      isMobile, listKind, part>>

\* GENERATION_STARTED of a foreground generation.
ForegroundStarted(type) ==
    /\ type # "quiet"
    /\ stats.regexSkipped < MaxSessions
    /\ onGenerationStarted(type)
    /\ UNCHANGED <<timers, quietOpen, quietFrame>>

\* GENERATION_STARTED of a background generation.
QuietStarted ==
    /\ ~quietOpen
    /\ quietOpen' = TRUE
    /\ onGenerationStarted("quiet")
    /\ UNCHANGED <<timers, quietFrame>>

TokenReceived ==
    /\ onStreamTokenReceived
    /\ UNCHANGED <<quietOpen, quietFrame>>

\* The background generation ends or is stopped: the host emits
\* GENERATION_ENDED or GENERATION_STOPPED for it as for any other.
QuietEnded(stopped) ==
    /\ quietOpen
    /\ quietOpen' = FALSE
    /\ Len(timers) < MaxTimers
    /\ IF stopped THEN onGenerationStopped ELSE onGenerationEnded
    /\ UNCHANGED quietFrame

\* The foreground generation ends or is stopped.
ForegroundEnded(stopped) ==
    /\ isGenerating
    /\ Len(timers) < MaxTimers
    /\ IF stopped THEN onGenerationStopped ELSE onGenerationEnded
    /\ UNCHANGED <<quietOpen, quietFrame>>

RerenderFires ==
    /\ timers # <<>>
    /\ timers' = Tail(timers)
    /\ rerenderLastMessage
    /\ UNCHANGED <<quietOpen, histVars, cacheVars, setVars, frameVars, scrollVars,
                   loadVars, isMobile, listKind, part>>

QuietNext ==
    \/ \E type \in Kinds : ForegroundStarted(type)
    \/ QuietStarted
    \/ TokenReceived
    \/ \E stopped \in BOOLEAN : QuietEnded(stopped)
    \/ \E stopped \in BOOLEAN : ForegroundEnded(stopped)
    \/ RerenderFires

QuietSpec == Init /\ [][QuietNext]_vars

\* ------------------------------------------------------------------ specification of the reapplication pass

rerenderFrame ==
    <<ctlVars, histVars, cacheVars, envVars, setVars, frameVars, scrollVars,
      loadVars, emitted, rewrites>>

\* The host appends a message to chat; its element is in the DOM, or not
\* (yet).
HostAddsMessage(is_user, rendered) ==
    LET k == Len(chatMessages) IN
    /\ k < MaxChat
    /\ chatMessages' = Append(chatMessages, [is_user |-> is_user])
    /\ mesElements' = [mesElements EXCEPT
                          ![k] = [present |-> rendered, html |-> Streamed(k)]]
    /\ UNCHANGED rerenderFrame

\* The host deletes the last message, with its element.
HostDeletesLastMessage ==
    /\ chatMessages # <<>>
    /\ chatMessages' = SubSeq(chatMessages, 1, Len(chatMessages) - 1)
    /\ mesElements' = [mesElements EXCEPT ![Len(chatMessages) - 1] = NoElement]
    /\ UNCHANGED rerenderFrame

\* The element of message k leaves the DOM while the message stays in chat.
HostRemovesElement(k) ==
    /\ mesElements[k].present
    /\ mesElements' = [mesElements EXCEPT ![k] = NoElement]
    /\ UNCHANGED <<chatMessages, rerenderFrame>>

RerenderInit ==
    /\ Init
    /\ settings = defaultSettings
    /\ disabledExtensions = <<>>

RerenderNext ==
    \/ \E type \in Kinds : GENERATION_STARTED(type)
    \/ STREAM_TOKEN_RECEIVED
    \/ GENERATION_ENDED
    \/ GENERATION_STOPPED
    \/ RerenderTimeout
    \/ \E is_user \in BOOLEAN, rendered \in BOOLEAN : HostAddsMessage(is_user, rendered)
    \/ HostDeletesLastMessage
    \/ \E k \in 0..(MaxChat - 1) : HostRemovesElement(k)

RerenderSpec == RerenderInit /\ [][RerenderNext]_vars

\* ------------------------------------------------------------------ steps of the cache

sessionState == <<disabledExtensions, isGenerating, regexDisabled,
                  regexWasAlreadyDisabled, perfStreaming, timers, extVars>>

\* new RegExp(pattern, flags) anywhere in the page while the wrapper is in.
NewRegExp(pattern, flags) ==
    LET key  == cacheKey(pattern, flags)
        hit  == cacheHas(key)
        full == Len(regexCache) >= CACHE_MAX_SIZE
        thr  == ~hit /\ NativeThrows(pattern, flags) IN
    /\ windowRegExp = "Cached"
    /\ hit => stats.regexCacheHits < MaxHits
    /\ hit \/ thr \/ made < MaxObjects
    /\ Cached(pattern, flags)
    /\ lastReq' =
         IF thr THEN lastReq
         ELSE [valid |-> TRUE,
               source |-> patternStr(pattern),
               flags |-> flagsStr(pattern, flags),
               ret |-> CachedReturn(pattern, flags),
               hit |-> hit,
               repeat |-> /\ lastReq.valid
                          /\ lastReq.source = patternStr(pattern)
                          /\ lastReq.flags = flagsStr(pattern, flags),
               evicted |-> IF ~hit /\ full THEN regexCache[1].id ELSE 0,
               dirty |-> hit /\ regexCache[cacheAt(key)].lastIndex # 0,
               evictedJustHit |-> /\ ~hit /\ full
                                  /\ lastReq.valid /\ lastReq.hit
                                  /\ lastReq.ret = regexCache[1].id]
    /\ lastOp' = "other"
    /\ lastCleared' = 0
    /\ lastCall' = NoCall
    /\ tally' =
         IF thr THEN [tally EXCEPT !.threw = TRUE]
         ELSE [completed |-> tally.completed + 1,
               sinceClear |-> tally.sinceClear + (IF hit THEN 0 ELSE 1),
               threw |-> FALSE]
    /\ UNCHANGED <<settings, sessionState, histVars>>
    /\ UNCHANGED <<isWebKit, windowRegExp, OriginalRegExp, installedOver>>

\* new RegExp(pattern, flags) while window.RegExp is the host's compiler:
\* the extension's code is not involved.
NewRegExpHost(pattern, flags) ==
    /\ windowRegExp # "Cached"
    /\ lastOp' = IF lastOp \in {"enable", "hostreq"} THEN "hostreq" ELSE "other"
    /\ lastCleared' = 0
    /\ lastCall' = NoCall
    /\ UNCHANGED <<settings, stats, sessionState, histVars>>
    /\ tally' = [tally EXCEPT !.threw = FALSE]
    /\ UNCHANGED <<isWebKit, windowRegExp, OriginalRegExp, regexCache, made,
                   installedOver, lastReq>>

\* RegExp(pattern, flags), called as a plain function while the wrapper is in.
CallRegExp(pattern, flags) ==
    /\ windowRegExp = "Cached"
    /\ CachedCall(pattern, flags)
    /\ lastOp' = "call"
    /\ lastCleared' = 0
    /\ lastCall' = CachedCallReturn(pattern, flags)
    /\ UNCHANGED <<settings, sessionState, histVars>>
    /\ tally' = [tally EXCEPT !.threw = FALSE]
    /\ UNCHANGED <<isWebKit, windowRegExp, OriginalRegExp, installedOver, lastReq>>

\* A holder of the cached global-flag object at place i matches with it and
\* leaves the cursor at n.
CallerMovesLastIndex(i, n) ==
    /\ regexCache[i].flags = "g"
    /\ regexCache[i].lastIndex # n
    /\ regexCache' = [regexCache EXCEPT ![i].lastIndex = n]
    /\ lastOp' = "other"
    /\ lastCleared' = 0
    /\ lastCall' = NoCall
    /\ UNCHANGED <<settings, stats, sessionState, histVars>>
    /\ tally' = [tally EXCEPT !.threw = FALSE]
    /\ UNCHANGED <<isWebKit, windowRegExp, OriginalRegExp, made,
                   installedOver, lastReq>>

\* The cacheRegex checkbox fires change with this.checked = checked.
ToggleCacheRegex(checked) ==
    /\ perf_opt_cache_regex_change(checked)
    /\ installedOver' =
         IF windowRegExp' = windowRegExp THEN installedOver
         ELSE IF checked THEN windowRegExp ELSE "null"
    /\ lastReq' = IF windowRegExp' = windowRegExp THEN lastReq ELSE NoReq
    /\ lastOp' = IF checked THEN "enable"
                  ELSE IF lastOp \in {"disable", "disable2"} THEN "disable2"
                  ELSE "disable"
    /\ lastCall' = NoCall
    /\ lastCleared' = IF checked THEN 0
                       ELSE IF OriginalRegExp # "null" THEN Len(regexCache)
                       ELSE lastCleared
    /\ tally' = IF ~checked /\ OriginalRegExp # "null"
                 THEN [tally EXCEPT !.sinceClear = 0, !.threw = FALSE]
                 ELSE [tally EXCEPT !.threw = FALSE]
    /\ UNCHANGED <<stats, sessionState, histVars, isWebKit, made>>

\* ------------------------------------------------------------------ specification of the cache

CacheInit ==
    /\ isMobile = FALSE
    /\ listKind = "array"
    /\ part = "cache"
    /\ quietOpen = FALSE
    /\ SettingsIdle
    /\ FrameIdle
    /\ ScrollIdle
    /\ LoadIdle
    /\ DomIdle
    /\ settings \in FullSettings({"cacheRegex"})
    /\ disabledExtensions = <<>>
    /\ isGenerating = FALSE
    /\ regexDisabled = FALSE
    /\ regexWasAlreadyDisabled = FALSE
    /\ stats = InitialStats
    /\ perfStreaming = FALSE
    /\ timers = <<>>
    /\ owner = <<>>
    /\ nSess = 0
    /\ sPhase = "none"
    /\ sPure = TRUE
    /\ sDefer = FALSE
    /\ sPre = "absent"
    /\ sTokens = 0
    /\ sAdds = 0
    /\ sRemoves = 0
    /\ sSched = 0
    /\ sRan = 0
    /\ sPerf = FALSE
    /\ sEnd = "none"
    /\ lastRemoved = "none"
    /\ isWebKit \in BOOLEAN
    /\ \E host \in HostCompilers : InitCache(host)

CacheNext ==
    \/ \E pattern \in PatternInputs, flags \in FlagInputs : NewRegExp(pattern, flags)
    \/ \E pattern \in PatternInputs, flags \in FlagInputs : NewRegExpHost(pattern, flags)
    \/ \E pattern \in PatternInputs, flags \in FlagInputs : CallRegExp(pattern, flags)
    \/ \E i \in 1..Len(regexCache), n \in 0..MaxLastIndex : CallerMovesLastIndex(i, n)
    \/ \E checked \in BOOLEAN : ToggleCacheRegex(checked)

CacheSpec == CacheInit /\ [][CacheNext]_vars

\* ------------------------------------------------------------------ specification of the cache key

\* Requests that meet at a key: null and undefined against the empty
\* string, and a source or flags that hold the separator.
KeyPatternInputs ==
    {Undefined, Null, Str(""), Str("a"), Str("a|||"), Re("a", "g")}
KeyFlagInputs ==
    {Undefined, Null, Str("g"), Str("|||g")}

\* The wrapper is installed over the host's compiler.
KeyInit ==
    /\ CacheInit
    /\ settings.enabled
    /\ settings.cacheRegex

KeyNext ==
    \/ \E pattern \in KeyPatternInputs, flags \in KeyFlagInputs :
          NewRegExp(pattern, flags)
    \/ \E checked \in BOOLEAN : ToggleCacheRegex(checked)

KeySpec == KeyInit /\ [][KeyNext]_vars

\* ------------------------------------------------------------------ specification of the settings store

\* What may be stored under the module's key when the extension loads:
\* nothing, or an object written by any earlier version, holding any of the
\* keys with any value.
StoredSettings ==
    {NoSettings} \cup
        UNION {[D -> BOOLEAN] : D \in SUBSET (DOMAIN defaultSettings)}

sessionIdle ==
    /\ disabledExtensions = <<>>
    /\ isGenerating = FALSE
    /\ regexDisabled = FALSE
    /\ regexWasAlreadyDisabled = FALSE
    /\ stats = InitialStats
    /\ perfStreaming = FALSE
    /\ timers = <<>>
    /\ owner = <<>>
    /\ nSess = 0
    /\ sPhase = "none"
    /\ sPure = TRUE
    /\ sDefer = FALSE
    /\ sPre = "absent"
    /\ sTokens = 0
    /\ sAdds = 0
    /\ sRemoves = 0
    /\ sSched = 0
    /\ sRan = 0
    /\ sPerf = FALSE
    /\ sEnd = "none"
    /\ lastRemoved = "none"

\* Any caller of getSettings(): the stored object is created or completed
\* in place.
ReadSettings ==
    /\ settings' = getSettings(settings)
    /\ readsInRow' = Min(2, readsInRow + 1)
    /\ sFirst' = IF readsInRow = 0 THEN settings ELSE sFirst
    /\ sBefore' = settings
    /\ UNCHANGED <<disabledExtensions, isGenerating, regexDisabled,
                   regexWasAlreadyDisabled, stats, perfStreaming, timers>>
    /\ UNCHANGED <<histVars, cacheVars, envVars, frameVars, scrollVars, loadVars,
                   domVars>>

\* A checkbox of the settings panel (built by init, after its getSettings
\* call) writes one key.
SettingWritten(handler) ==
    /\ DOMAIN defaultSettings \subseteq DOMAIN settings
    /\ handler
    /\ readsInRow' = 0
    /\ sFirst' = NoSettings
    /\ sBefore' = NoSettings
    /\ UNCHANGED <<disabledExtensions, isGenerating, regexDisabled,
                   regexWasAlreadyDisabled, stats, perfStreaming, timers>>
    /\ UNCHANGED <<histVars, cacheVars, envVars, frameVars, scrollVars, loadVars,
                   domVars>>

SettingsInit ==
    /\ isMobile \in BOOLEAN
    /\ listKind = "array"
    /\ part = "settings"
    /\ quietOpen = FALSE
    /\ settings \in StoredSettings
    /\ SettingsIdle
    /\ FrameIdle
    /\ ScrollIdle
    /\ LoadIdle
    /\ DomIdle
    /\ sessionIdle
    /\ isWebKit = FALSE
    /\ CacheAtLoad("Native")

SettingsNext ==
    \/ ReadSettings
    \/ SettingWritten(perf_opt_enabled_change)
    \/ SettingWritten(perf_opt_defer_regex_change)
    \/ SettingWritten(perf_opt_reduce_effects_change)

SettingsSpec == SettingsInit /\ [][SettingsNext]_vars

\* ------------------------------------------------------------------ specification of the renderer

frameFrame ==
    <<disabledExtensions, isGenerating, regexDisabled, regexWasAlreadyDisabled,
      perfStreaming, timers, histVars, cacheVars, envVars, setVars,
      scrollVars, loadVars, domVars>>

\* The steps of the renderer other than the message handler write no
\* style.height.
rendererFrame == <<frameFrame, iframeHeight>>

Detach(phs, m) ==
    [p \in DOMAIN phs |->
        IF phs[p].home = m THEN [phs[p] EXCEPT !.home = 0] ELSE phs[p]]

\* The host writes the innerHTML of message m's text (a new message, an
\* edit, a swipe, the reapplication pass): what was attached there is
\* detached, the code blocks are new elements.
HostRendersMessage(m, nodes) ==
    /\ mesText' = [mesText EXCEPT ![m] = [present |-> TRUE, nodes |-> nodes]]
    /\ placeholders' = Detach(placeholders, m)
    /\ lastEv' = NoEv
    /\ UNCHANGED <<settings, stats, iframePlaceholders, iframeObserver, iframeSrcdoc,
                   observed, rescanTimers, changeMark>>
    /\ UNCHANGED rendererFrame

\* The host empties #chat (the conversation is being switched).
HostClearsChat ==
    /\ \E m \in MesIds : mesText[m].present
    /\ mesText' = [m \in MesIds |-> [present |-> FALSE, nodes |-> <<>>]]
    /\ placeholders' =
         [p \in DOMAIN placeholders |-> [placeholders[p] EXCEPT !.home = 0]]
    /\ lastEv' = NoEv
    /\ UNCHANGED <<settings, stats, iframePlaceholders, iframeObserver, iframeSrcdoc,
                   observed, rescanTimers, changeMark>>
    /\ UNCHANGED rendererFrame

\* CHARACTER_MESSAGE_RENDERED, USER_MESSAGE_RENDERED, MESSAGE_UPDATED and
\* MESSAGE_SWIPED all run processMessageForIframes(mesId).
MessageEvent(mesId) ==
    LET F == processMessageForIframes(FrameState, mesId) IN
    /\ Len(F.placeholders) <= MaxPlaceholders
    /\ SetFrameState(F)
    /\ lastEv' = [kind |-> "message", mes |-> StringOf(mesId)]
    /\ UNCHANGED <<rescanTimers, changeMark>>
    /\ UNCHANGED rendererFrame

MORE_MESSAGES_LOADED ==
    LET F == processAllMessagesForIframes(FrameState) IN
    /\ Len(F.placeholders) <= MaxPlaceholders
    /\ SetFrameState(F)
    /\ lastEv' = NoEv
    /\ UNCHANGED <<rescanTimers, changeMark>>
    /\ UNCHANGED rendererFrame

CHAT_CHANGED ==
    /\ rescanTimers < MaxRescans
    /\ SetFrameState(cleanupAllIframes(FrameState))
    /\ rescanTimers' = rescanTimers + 1
    /\ changeMark' = Len(placeholders)
    /\ lastEv' = NoEv
    /\ UNCHANGED rendererFrame

\* The setTimeout(..., 300) callback of the CHAT_CHANGED handler.
RescanTimeout ==
    LET F == processAllMessagesForIframes(FrameState) IN
    /\ rescanTimers > 0
    /\ Len(F.placeholders) <= MaxPlaceholders
    /\ SetFrameState(F)
    /\ rescanTimers' = rescanTimers - 1
    /\ changeMark' = IF rescanTimers = 1 THEN 0 ELSE changeMark
    /\ lastEv' = NoEv
    /\ UNCHANGED rendererFrame

\* lastEv after an "entered" entry was delivered for a placeholder whose
\* registry entry already holds an iframe.
EnterAgain == [kind |-> "enterAgain", mes |-> 0]

HoldsIframe(F, placeholder) ==
    regHas(F, placeholder) /\ F.reg[regAt(F, placeholder)].iframe # 0

\* The observer's callback is delivered with one entry.  Entries are queued
\* when the intersection is computed and delivered later, so the target may
\* have been unobserved, detached or dropped from the registry meanwhile.
IntersectionCallback(placeholder, isIntersecting) ==
    LET F == IntersectionEntry(FrameState, placeholder, isIntersecting) IN
    /\ isIntersecting => stats.iframesCreated < MaxIframes
    /\ SetFrameState(F)
    /\ lastEv' = IF isIntersecting /\ HoldsIframe(FrameState, placeholder)
                 THEN EnterAgain ELSE NoEv
    /\ UNCHANGED <<rescanTimers, changeMark>>
    /\ UNCHANGED rendererFrame

ToggleLightHtml(checked) ==
    LET F == IF checked THEN processAllMessagesForIframes(FrameState) ELSE FrameState IN
    /\ Len(F.placeholders) <= MaxPlaceholders
    /\ perf_opt_light_html_change(checked)
    /\ lastEv' = NoEv
    /\ UNCHANGED <<rescanTimers, changeMark>>
    /\ UNCHANGED rendererFrame

\* The master switch, in the renderer's specification.
ToggleEnabledFrame ==
    /\ perf_opt_enabled_change
    /\ lastEv' = NoEv
    /\ UNCHANGED <<stats, mesText, placeholders, iframePlaceholders,
                   iframeObserver, observed, iframeSrcdoc, rescanTimers,
                   changeMark>>
    /\ UNCHANGED rendererFrame

FrameInit ==
    /\ isMobile = FALSE
    /\ listKind = "array"
    /\ part = "renderer"
    /\ quietOpen = FALSE
    /\ SettingsIdle
    /\ settings \in FullSettings({"enabled", "lightHtmlRenderer"})
    /\ sessionIdle
    /\ isWebKit = FALSE
    /\ InitCache("Native")
    /\ FrameIdle
    /\ ScrollIdle
    /\ LoadIdle
    /\ DomIdle

FrameNext ==
    \/ \E m \in MesIds, nodes \in Renderings : HostRendersMessage(m, nodes)
    \/ HostClearsChat
    \/ \E mesId \in MesIdInputs : MessageEvent(mesId)
    \/ MORE_MESSAGES_LOADED
    \/ CHAT_CHANGED
    \/ RescanTimeout
    \/ \E placeholder \in 1..Len(placeholders), isIntersecting \in BOOLEAN :
          IntersectionCallback(placeholder, isIntersecting)
    \/ \E checked \in BOOLEAN : ToggleLightHtml(checked)
    \/ ToggleEnabledFrame

FrameSpec == FrameInit /\ [][FrameNext]_vars

\* ------------------------------------------------------------------ specification of the height negotiation

\* Messages that reach the window: from the window of an iframe created so
\* far (which may be gone by the time the message is delivered) or from
\* another window, with the resize type or another one, or without data.
MessageInputs ==
    {[data |-> d, source |-> w] :
        d \in {NullData} \cup {Data(t, h) : t \in {"perf-opt-resize", "other"},
                                            h \in {300}},
        w \in {TopWindow} \cup {WindowOf(i) : i \in 1..MaxIframes}}

WindowMessage == [kind |-> "windowMessage", mes |-> 0]

\* A message event is dispatched on the window.
MessageReceived(e) ==
    /\ e.source.frame <= stats.iframesCreated
    /\ onIframeResizeMessage(e)
    /\ lastEv' = WindowMessage
    /\ UNCHANGED <<settings, stats, mesText, placeholders, iframePlaceholders,
                   iframeObserver, observed, iframeSrcdoc, rescanTimers,
                   changeMark>>
    /\ UNCHANGED frameFrame

\* The renderer is on from the start.
ResizeInit ==
    /\ FrameInit
    /\ settings.enabled
    /\ settings.lightHtmlRenderer

ResizeNext ==
    \/ \E m \in MesIds, nodes \in Renderings : HostRendersMessage(m, nodes)
    \/ \E mesId \in MesIdInputs : MessageEvent(mesId)
    \/ \E placeholder \in 1..Len(placeholders), isIntersecting \in BOOLEAN :
          IntersectionCallback(placeholder, isIntersecting)
    \/ \E e \in MessageInputs : MessageReceived(e)

ResizeSpec == ResizeInit /\ [][ResizeNext]_vars

\* ------------------------------------------------------------------ specification of the scroll preservation

scrollFrame ==
    <<disabledExtensions, isGenerating, regexDisabled, regexWasAlreadyDisabled,
      perfStreaming, timers, histVars, cacheVars, envVars, setVars, frameVars,
      loadVars, domVars>>

\* The feature gets past the early returns of onVisibilityChange.
PreservationOn ==
    /\ scrollListener
    /\ getSettings(settings).enabled
    /\ getSettings(settings).preventScrollJump
    /\ chatPresent

\* The page is hidden or shown and the browser fires visibilitychange.
VisibilityChange(hidden) ==
    /\ hidden => hides < MaxHides
    /\ documentHidden' = hidden
    /\ IF scrollListener
       THEN onVisibilityChange(hidden)
       ELSE UNCHANGED <<settings, savedScrollInfo, rafQueue>>
    /\ hides' = IF hidden THEN hides + 1 ELSE hides
    /\ lastVis' = [kind |-> IF hidden THEN "hide" ELSE "show",
                   handled |-> PreservationOn]
    /\ lastRestore' = NoRestore
    /\ UNCHANGED <<stats, chatPresent, chat, scrollListener, restoredIds>>
    /\ UNCHANGED scrollFrame

\* The browser runs one animation frame.
AnimationFrame ==
    /\ rafQueue # <<>>
    /\ LET R == RunCallbacks(rafQueue, 1,
                    [chat |-> chat, scrollRestored |-> stats.scrollRestored,
                     ids |-> restoredIds, last |-> NoRestore]) IN
       /\ chat' = R.chat
       /\ stats' = [stats EXCEPT !.scrollRestored = R.scrollRestored]
       /\ restoredIds' = R.ids
       /\ lastRestore' = R.last
    /\ rafQueue' = Requested(rafQueue, 1)
    /\ lastVis' = NoVis
    /\ UNCHANGED <<settings, documentHidden, chatPresent, savedScrollInfo,
                   scrollListener, hides>>
    /\ UNCHANGED scrollFrame

\* The user scrolls, or the content of #chat changes its height.
HostLayout(c) ==
    /\ c # chat
    /\ chat' = c
    /\ lastVis' = NoVis
    /\ lastRestore' = NoRestore
    /\ UNCHANGED <<settings, stats, documentHidden, chatPresent, savedScrollInfo,
                   rafQueue, scrollListener, hides, restoredIds>>
    /\ UNCHANGED scrollFrame

ToggleScrollPreserve(checked) ==
    /\ perf_opt_scroll_preserve_change(checked)
    /\ lastVis' = NoVis
    /\ lastRestore' = NoRestore
    /\ UNCHANGED <<stats, documentHidden, chatPresent, chat, rafQueue, hides,
                   restoredIds>>
    /\ UNCHANGED scrollFrame

\* The master switch, in the specification of the scroll preservation.
ToggleEnabledScroll ==
    /\ perf_opt_enabled_change
    /\ lastVis' = NoVis
    /\ lastRestore' = NoRestore
    /\ UNCHANGED <<stats, documentHidden, chatPresent, chat, savedScrollInfo,
                   rafQueue, scrollListener, hides, restoredIds>>
    /\ UNCHANGED scrollFrame

\* After init(): the listener is there when the master switch and
\* preventScrollJump were on.
ScrollInit ==
    /\ isMobile = FALSE
    /\ listKind = "array"
    /\ part = "scroll"
    /\ quietOpen = FALSE
    /\ SettingsIdle
    /\ FrameIdle
    /\ LoadIdle
    /\ DomIdle
    /\ settings \in FullSettings({"enabled", "preventScrollJump"})
    /\ sessionIdle
    /\ isWebKit = FALSE
    /\ InitCache("Native")
    /\ documentHidden = FALSE
    /\ chatPresent \in BOOLEAN
    /\ chat \in Layouts
    /\ savedScrollInfo = NullInfo
    /\ rafQueue = <<>>
    /\ scrollListener = (settings.enabled /\ settings.preventScrollJump)
    /\ hides = 0
    /\ restoredIds = <<>>
    /\ lastVis = NoVis
    /\ lastRestore = NoRestore

ScrollNext ==
    \/ \E hidden \in BOOLEAN : VisibilityChange(hidden)
    \/ AnimationFrame
    \/ \E c \in Layouts : HostLayout(c)
    \/ \E checked \in BOOLEAN : ToggleScrollPreserve(checked)
    \/ ToggleEnabledScroll

ScrollSpec == ScrollInit /\ [][ScrollNext]_vars

\* ------------------------------------------------------------------ specification of init()

loadFrame ==
    <<disabledExtensions, isGenerating, regexDisabled, regexWasAlreadyDisabled,
      stats, perfStreaming, timers, histVars, envVars, setVars, frameVars,
      documentHidden, chatPresent, chat, savedScrollInfo, rafQueue, hides,
      restoredIds, lastVis, lastRestore,
      isWebKit, regexCache, made, lastReq, lastOp, lastCleared, lastCall,
      tally, domVars>>

AtStep(name) == initPc <= Len(InitOrder) /\ InitOrder[initPc] = name

\* What a step of init() leaves alone, and the move to the next step.
InitMoves(changed) ==
    /\ initPc' = initPc + 1
    /\ UNCHANGED initFailed
    /\ IF "settings" \in changed THEN TRUE ELSE UNCHANGED settings
    /\ IF "handlers" \in changed THEN TRUE ELSE UNCHANGED handlers
    /\ IF "RegExp" \in changed THEN TRUE ELSE UNCHANGED <<windowRegExp, OriginalRegExp, installedOver>>
    /\ IF "containment" \in changed THEN TRUE ELSE UNCHANGED containmentStyle
    /\ IF "scroll" \in changed THEN TRUE ELSE UNCHANGED scrollListener
    /\ IF "blur" \in changed THEN TRUE ELSE UNCHANGED blurStyle
    /\ UNCHANGED loadFrame

\* const settings = getSettings(), and the getSettings() of createSettingsUI.
InitGetSettings ==
    /\ AtStep("getSettings") \/ AtStep("createSettingsUI")
    /\ settings' = getSettings(settings)
    /\ InitMoves({"settings"})

\* eventSource.on(event_types[ev], ...)
InitHook(ev) ==
    /\ AtStep(ev)
    /\ handlers' = handlers \cup {ev}
    /\ InitMoves({"handlers"})

InitRegexCache ==
    /\ AtStep("enableRegexCache")
    /\ IF settings.enabled /\ settings.cacheRegex
       THEN enableRegexCache
       ELSE UNCHANGED <<OriginalRegExp, windowRegExp>>
    /\ installedOver' = IF windowRegExp' = windowRegExp THEN installedOver
                        ELSE windowRegExp
    /\ InitMoves({"RegExp"})

InitCSSContainment ==
    /\ AtStep("enableCSSContainment")
    /\ IF settings.enabled /\ settings.cssContainment
       THEN enableCSSContainment
       ELSE UNCHANGED containmentStyle
    /\ InitMoves({"containment"})

InitScrollPreservation ==
    /\ AtStep("enableScrollPreservation")
    /\ IF settings.enabled /\ settings.preventScrollJump
       THEN scrollListener' = TRUE
       ELSE UNCHANGED scrollListener
    /\ InitMoves({"scroll"})

InitBlurSuppression ==
    /\ AtStep("enableGlobalBlurSuppression")
    /\ IF settings.enabled /\ settings.globalBlurSuppression
       THEN enableGlobalBlurSuppression
       ELSE UNCHANGED blurStyle
    /\ InitMoves({"blur"})

\* The console.log that ends the try block.
InitLoaded ==
    /\ AtStep("loaded")
    /\ InitMoves({})

\* The call init() is about to make throws before it has changed anything:
\* control passes to the catch block, which logs the error and returns.
InitThrows ==
    /\ initPc <= Len(InitOrder)
    /\ initFailed' = TRUE
    /\ initPc' = InitDone
    /\ UNCHANGED <<settings, handlers, windowRegExp, OriginalRegExp,
                   installedOver, containmentStyle, scrollListener, blurStyle>>
    /\ UNCHANGED loadFrame

\* The module has been evaluated and init() is about to run.
LoadInit ==
    /\ isMobile \in BOOLEAN
    /\ listKind = "array"
    /\ part = "load"
    /\ quietOpen = FALSE
    /\ settings \in {NoSettings} \cup
          FullSettings({"enabled", "cacheRegex", "cssContainment",
                        "preventScrollJump", "globalBlurSuppression"})
    /\ SettingsIdle
    /\ FrameIdle
    /\ ScrollIdle
    /\ DomIdle
    /\ sessionIdle
    /\ isWebKit \in BOOLEAN
    /\ \E host \in HostCompilers : CacheAtLoad(host)
    /\ initPc = 1
    /\ initFailed = FALSE
    /\ handlers = {}
    /\ containmentStyle = FALSE
    /\ blurStyle = FALSE

LoadNext ==
    \/ InitGetSettings
    \/ \E ev \in Range(CoreHooks) \cup Range(RendererHooks) : InitHook(ev)
    \/ InitRegexCache
    \/ InitCSSContainment
    \/ InitScrollPreservation
    \/ InitBlurSuppression
    \/ InitLoaded
    \/ InitThrows

LoadSpec == LoadInit /\ [][LoadNext]_vars

\* ------------------------------------------------------------------ properties of the controller

\* Reapplications scheduled by the current session that have not run yet.
CurPending == Cardinality({i \in 1..Len(timers) : timers[i] = "cur"})

RegexCount == Cardinality({i \in 1..Len(disabledExtensions) : disabledExtensions[i] = "regex"})

\* C1: in a session started -> token(s) -> ended that opened with the master
\* switch and defer-during-streaming on and 'regex' not listed, and in which
\* nothing but lifecycle signals arrived, 'regex' is pushed exactly once (by
\* the first token, not by later ones), spliced exactly once (by ended), and
\* exactly one reapplication is scheduled, which runs only after ended.
C1_AddOnceRemoveOnceRerenderOnce ==
    (sPure /\ sDefer /\ sPre = "absent") =>
        /\ (sPhase = "started") =>
              (sAdds = 0 /\ sRemoves = 0 /\ sSched = 0 /\ sRan = 0)
        /\ (sPhase = "token") =>
              (sAdds = 1 /\ sRemoves = 0 /\ sSched = 0 /\ sRan = 0
               /\ RegexCount = 1)
        /\ (sPhase = "done" /\ sTokens >= 1 /\ sEnd = "ended") =>
              (sAdds = 1 /\ sRemoves = 1 /\ sSched = 1
               /\ sRan + CurPending = 1 /\ RegexCount = 0)

C1_Witness ==
    /\ sPure /\ sDefer /\ sPre = "absent"
    /\ sPhase = "done" /\ sTokens = 2 /\ sEnd = "ended"
    /\ sAdds = 1 /\ sRemoves = 1 /\ sRan = 1

\* C2: the controller splices a 'regex' entry out of disabledExtensions only
\* if it pushed that entry itself on the first token of the same session.
C2_RemovesOnlyOwnEntry ==
    lastRemoved \in {"none", "ctl"}

\* C3: whenever the controller is back in Idle, disabledExtensions holds no
\* entry that the controller pushed.
C3_NoControllerEntryInIdle ==
    ~isGenerating => \A i \in 1..Len(owner) : owner[i] \notin {"ctl", "old"}

\* C4: in a session that opened with 'regex' already listed by another actor
\* and in which nothing but lifecycle signals arrived, the controller pushes
\* no second entry and splices none, and once the session (with at least one
\* token) has ended or stopped exactly one reapplication has been scheduled.
C4_ForeignEntryKept ==
    (sPure /\ sPre = "ext") =>
        /\ sAdds = 0 /\ sRemoves = 0
        /\ RegexCount = 1 /\ regexOwner = "ext"
        /\ (sPhase \in {"started", "token"}) => sSched = 0
        /\ (sPhase = "done" /\ sTokens >= 1) =>
              (sSched = 1 /\ sRan + CurPending = 1)

C4_Witness ==
    /\ sPure /\ sPre = "ext" /\ sDefer
    /\ sPhase = "done" /\ sTokens >= 1
    /\ sSched = 1 /\ regexOwner = "ext"

\* C5: a session that is closed by ended or stopped before any token arrived
\* has pushed nothing, has never switched the perf-streaming mode on and has
\* scheduled no reapplication.
C5_NoTokenNoEffect ==
    ((sPhase = "started") \/ (sPhase = "done" /\ sTokens = 0)) =>
        /\ sAdds = 0 /\ sRemoves = 0
        /\ ~sPerf
        /\ sSched = 0 /\ sRan = 0

C5_Witness ==
    /\ sPhase = "done" /\ sTokens = 0 /\ sEnd = "ended"
    /\ getSettings(settings).deferRegexDuringStreaming
    /\ getSettings(settings).reduceStreamingEffects

\* C6: regexDisabled (deferralActive) implies isGenerating.
C6_DeferralImpliesGenerating ==
    regexDisabled => isGenerating

C6_Witness ==
    regexDisabled /\ isGenerating /\ ~sPure

\* ------------------------------------------------------------------ properties of the cache

Ids(c) == {c[i].id : i \in 1..Len(c)}

Keys(c) == [i \in 1..Len(c) |-> c[i].key]

\* The entry of the cache that was inserted first: ids count the wrapper's
\* compilations, so it is the one with the smallest id.
OldestId(c) == CHOOSE x \in Ids(c) : \A y \in Ids(c) : x <= y

\* A constructor request through the wrapper returned in this step.
Returned ==
    stats'.regexCacheHits + stats'.regexCacheMisses
        = stats.regexCacheHits + stats.regexCacheMisses + 1

HitStep == stats'.regexCacheHits = stats.regexCacheHits + 1

MissStep == stats'.regexCacheMisses = stats.regexCacheMisses + 1

\* The returned object is in the cache with its cursor at the start.
ReturnedAtZero ==
    \E i \in 1..Len(regexCache') :
        regexCache'[i].id = lastReq'.ret /\ regexCache'[i].lastIndex = 0

\* C7: while the wrapper stays installed, a constructor request with the
\* same pattern source and flags as the request before it returns the same
\* object, and every returned object has lastIndex 0 when it is returned,
\* whatever lastIndex its users left on it.
C7_SameObjectCursorZero ==
    [][Returned =>
         /\ ReturnedAtZero
         /\ (lastReq.valid /\ lastReq'.source = lastReq.source
                /\ lastReq'.flags = lastReq.flags)
              => lastReq'.ret = lastReq.ret]_vars

C7_Witness ==
    lastReq.valid /\ lastReq.repeat /\ lastReq.hit /\ lastReq.dirty

cacheState == <<windowRegExp, OriginalRegExp, regexCache, made, stats>>

\* The cacheRegex change handler ran with checked = false (disableRegexCache).
DisableStep == lastOp' \in {"disable", "disable2"} /\ ~settings'.cacheRegex

\* C10: disableRegexCache with the wrapper installed puts back exactly the
\* compiler the wrapper was installed over and empties the cache; with the
\* wrapper not installed, and so when called a second time in a row, it
\* changes nothing.
C10_DisableRestoresAndIsIdempotent ==
    [][DisableStep =>
         IF OriginalRegExp # "null"
         THEN /\ windowRegExp' = installedOver
              /\ windowRegExp' \in HostCompilers
              /\ OriginalRegExp' = "null"
              /\ regexCache' = <<>>
         ELSE UNCHANGED cacheState]_vars

C10_Witness ==
    /\ lastOp = "disable2" /\ lastCleared > 0
    /\ windowRegExp = "Shim" /\ OriginalRegExp = "null" /\ regexCache = <<>>

\* C11: on a WebKit host the wrapper is never installed: whatever enable
\* calls (the cacheRegex checkbox ticked) and compile requests happen,
\* window.RegExp stays the compiler the page loaded with, OriginalRegExp
\* stays null, the cache stays empty and the hit and miss counters stay 0.
C11_WebKitInstallsNothing ==
    /\ [](isWebKit =>
            /\ windowRegExp \in HostCompilers
            /\ OriginalRegExp = "null"
            /\ regexCache = <<>> /\ made = 0
            /\ stats.regexCacheHits = 0 /\ stats.regexCacheMisses = 0)
    /\ [][isWebKit => windowRegExp' = windowRegExp]_vars

C11_Witness ==
    /\ isWebKit /\ settings.cacheRegex /\ lastOp = "hostreq"
    /\ windowRegExp = "Shim" /\ OriginalRegExp = "null"

\* The wrapper was called without new in this step.
CallStep == lastOp' = "call"

\* C12: a call of the installed wrapper without new is served by the
\* compiler the wrapper was installed over, and it changes neither the
\* cached entries, nor their order, nor the hit and miss counters.
C12_CallWithoutNewBypassesCache ==
    [][CallStep =>
         /\ lastCall'.by = installedOver /\ lastCall'.by \in HostCompilers
         /\ regexCache' = regexCache
         /\ stats' = stats
         /\ made' = made]_vars

C12_Witness ==
    /\ lastOp = "call" /\ lastCall.by = "Shim" /\ ~lastCall.threw
    /\ Len(regexCache) = CACHE_MAX_SIZE /\ stats.regexCacheHits > 0

\* ------------------------------------------------------------------ properties of the settings store

\* Every key of `before` is in `after` with the same value.
KeepsValues(before, after) ==
    before # NoSettings =>
        \A k \in DOMAIN before : k \in DOMAIN after /\ after[k] = before[k]

\* C19: after a getSettings call the stored object holds every key of
\* defaultSettings, every key that was stored before the call has the value
\* it had (true or false), and a call that follows a call changes nothing.
C19_GetSettingsBackfills ==
    (readsInRow >= 1) =>
        /\ settings # NoSettings
        /\ DOMAIN defaultSettings \subseteq DOMAIN settings
        /\ KeepsValues(sBefore, settings)
        /\ KeepsValues(sFirst, settings)
        /\ (readsInRow = 2) => settings = sBefore

C19_Witness ==
    /\ readsInRow = 2
    /\ sFirst # NoSettings
    /\ DOMAIN sFirst = {"enabled", "cacheRegex"}
    /\ ~sFirst.enabled /\ ~settings.enabled
    /\ sFirst.cacheRegex /\ settings.lightHtmlRenderer

\* ------------------------------------------------------------------ properties of the renderer

Registered == {iframePlaceholders[i].ph : i \in 1..Len(iframePlaceholders)}

EntryOf(ph) == iframePlaceholders[CHOOSE i \in 1..Len(iframePlaceholders) :
                                     iframePlaceholders[i].ph = ph]

\* C13: a registry entry never has more than one active iframe: the
\* placeholder of an entry holds exactly the iframe the entry records, or
\* none.  An "entered" event delivered for an entry that already holds an
\* iframe creates no iframe and leaves iframesCreated as it was; whenever
\* iframesCreated grows it grows by one, for an entry that held no iframe.
C13_OneIframePerEntry ==
    /\ [](\A i \in 1..Len(iframePlaceholders) :
            LET e == iframePlaceholders[i] IN
            /\ Cardinality(placeholders[e.ph].kids) <= 1
            /\ placeholders[e.ph].kids = IF e.iframe = 0 THEN {} ELSE {e.iframe}
            /\ \A j \in 1..Len(iframePlaceholders) :
                  j # i => iframePlaceholders[j].ph # e.ph)
    /\ [][/\ lastEv' = EnterAgain =>
              /\ stats' = stats
              /\ iframePlaceholders' = iframePlaceholders
              /\ placeholders' = placeholders
          /\ stats'.iframesCreated # stats.iframesCreated =>
              /\ stats'.iframesCreated = stats.iframesCreated + 1
              /\ \E i \in 1..Len(iframePlaceholders) :
                    /\ iframePlaceholders[i].iframe = 0
                    /\ iframePlaceholders' =
                         [iframePlaceholders EXCEPT ![i].iframe = stats'.iframesCreated]]_vars

C13_Witness ==
    /\ lastEv = EnterAgain
    /\ stats.iframesCreated = 1
    /\ \E i \in 1..Len(iframePlaceholders) :
          /\ iframePlaceholders[i].iframe = 1
          /\ placeholders[iframePlaceholders[i].ph].kids = {1}

\* Entries of the registry owned by the message a step has just processed.
OwnedByProcessed(e) == StringOf(e.mesId) = lastEv'.mes

\* The step ran processMessageForIframes for a message that is in the chat.
ProcessedRendered == lastEv'.kind = "message" /\ mesText[lastEv'.mes].present

\* C14: when processMessageForIframes runs for the owner of a placeholder
\* that the host has detached by re-rendering the message (an edit, a
\* swipe) and that never held an iframe, the entry leaves the registry; and
\* a placeholder outside the registry never holds an iframe, whatever
\* intersection entries are delivered for it later.
C14_EditedBeforeViewRemoved ==
    /\ [][ProcessedRendered =>
            \A i \in 1..Len(iframePlaceholders) :
               LET e == iframePlaceholders[i] IN
               (/\ OwnedByProcessed(e)
                /\ placeholders[e.ph].home = 0
                /\ ~placeholders[e.ph].ever)
               => e.ph \notin Registered']_vars
    /\ [](\A p \in 1..Len(placeholders) :
            p \notin Registered =>
               placeholders[p].kids = {} /\ ~placeholders[p].ever)

\* C15: a step that runs processMessageForIframes(m) removes every entry
\* that was in the registry with owner m (owners compared as strings): its
\* iframe is gone, its placeholder is no longer observed, and the entries of
\* owner m that remain were all registered by the new scan.  Entries of
\* other owners, their placeholders and their observation are unchanged.
C15_OwnedEntriesTornDown ==
    [][ProcessedRendered =>
         /\ \A i \in 1..Len(iframePlaceholders) :
               LET e == iframePlaceholders[i] IN
               IF OwnedByProcessed(e)
               THEN /\ e.ph \notin Registered'
                    /\ e.ph \notin observed'
                    /\ placeholders'[e.ph].kids = {}
               ELSE /\ \E j \in 1..Len(iframePlaceholders') :
                          iframePlaceholders'[j] = e
                    /\ placeholders'[e.ph] = placeholders[e.ph]
                    /\ (e.ph \in observed') = (e.ph \in observed)
         /\ \A j \in 1..Len(iframePlaceholders') :
               StringOf(iframePlaceholders'[j].mesId) = lastEv'.mes
                  => iframePlaceholders'[j].ph > Len(placeholders)]_vars

ChatChangedStep == rescanTimers' = rescanTimers + 1

\* C16: the CHAT_CHANGED handler itself drops the observer (nothing is
\* observed any more), removes the iframe of every entry and empties the
\* registry, and scans nothing: no placeholder is made and the messages are
\* as they were.  The scan runs in the timer's callback; while that callback
\* is pending the registry holds no entry made before the change.
C16_ChatChangedClearsBeforeRescan ==
    /\ [][ChatChangedStep =>
            /\ iframeObserver' = "null"
            /\ observed' = {}
            /\ iframePlaceholders' = <<>>
            /\ \A i \in 1..Len(iframePlaceholders) :
                  placeholders'[iframePlaceholders[i].ph].kids = {}
            /\ Len(placeholders') = Len(placeholders)
            /\ mesText' = mesText
            /\ stats' = stats]_vars
    /\ [](rescanTimers > 0 =>
            \A i \in 1..Len(iframePlaceholders) :
               iframePlaceholders[i].ph > changeMark)

C16_Witness ==
    /\ rescanTimers = 1
    /\ changeMark = 2
    /\ iframePlaceholders = <<>>
    /\ iframeObserver = "null"
    /\ stats.iframesCreated = 2
    /\ stats.iframesDestroyed = 0
    /\ \A p \in 1..2 : placeholders[p].home # 0 /\ placeholders[p].kids = {}

\* ------------------------------------------------------------------ properties of the scroll preservation

HideStep == lastVis'.kind = "hide"

ShowStep == lastVis'.kind = "show"

\* No hide is restored twice; scrollRestored counts the restores; there are
\* never more restores than hides.
RestoresBounded ==
    /\ \A i, j \in 1..Len(restoredIds) :
          restoredIds[i] = restoredIds[j] => i = j
    /\ stats.scrollRestored = Len(restoredIds)
    /\ stats.scrollRestored <= hides

\* C17 as stated: a hide that the feature handles stores the snapshot of
\* that moment in place of whatever was stored; every show that finds a
\* snapshot clears it and requests one restore; a show that finds none
\* requests nothing; no snapshot is restored twice and restores never
\* outnumber hides.
C17_SnapshotSingleShot ==
    /\ [][/\ HideStep /\ lastVis'.handled =>
              /\ savedScrollInfo' = Snapshot(chat, hides')
              /\ rafQueue' = rafQueue
          /\ ShowStep /\ savedScrollInfo # NullInfo =>
              /\ savedScrollInfo' = NullInfo
              /\ rafQueue' = Append(rafQueue, Callback("outer", savedScrollInfo, 0))
          /\ ShowStep /\ savedScrollInfo = NullInfo =>
              /\ savedScrollInfo' = NullInfo
              /\ rafQueue' = rafQueue]_vars
    /\ []RestoresBounded

\* C17, amended: a show clears the snapshot it finds and requests one
\* restore when onVisibilityChange handles it with the master switch and
\* preventScrollJump on and #chat in the page (otherwise the snapshot stays
\* and nothing is requested); the rest is as stated.
C17_SingleShotWhileOn ==
    /\ [][/\ HideStep /\ lastVis'.handled =>
              /\ savedScrollInfo' = Snapshot(chat, hides')
              /\ rafQueue' = rafQueue
          /\ ShowStep /\ lastVis'.handled /\ savedScrollInfo # NullInfo =>
              /\ savedScrollInfo' = NullInfo
              /\ rafQueue' = Append(rafQueue, Callback("outer", savedScrollInfo, 0))
          /\ ShowStep /\ savedScrollInfo = NullInfo =>
              /\ savedScrollInfo' = NullInfo
              /\ rafQueue' = rafQueue]_vars
    /\ []RestoresBounded

\* Two hides in a row, then a show and its two frames: the first snapshot
\* was overwritten, only the second was restored.
C17_Witness ==
    /\ hides = 2
    /\ restoredIds = <<2>>
    /\ stats.scrollRestored = 1
    /\ savedScrollInfo = NullInfo
    /\ rafQueue = <<>>
    /\ lastRestore # NoRestore

RestoreStep == lastRestore'.valid

\* C18: a restore sets scrollTop to max(0, scrollHeight - clientHeight -
\* distanceFromBottom) with the geometry of #chat at the restore and
\* distanceFromBottom = scrollHeight - scrollTop - clientHeight of the hide;
\* it runs in the second animation frame after the show; a hide at
\* 1000/700/300 restored at 1200/300 gives 900.
C18_RestoredPosition ==
    [][RestoreStep =>
         LET info == lastRestore'.info
             distanceFromBottom ==
                 info.scrollHeight - info.scrollTop - info.clientHeight IN
         /\ chat'.scrollTop =
              Max(0, chat.scrollHeight - chat.clientHeight - distanceFromBottom)
         /\ chat'.scrollHeight = chat.scrollHeight
         /\ chat'.clientHeight = chat.clientHeight
         /\ lastRestore'.frames = 2
         /\ (/\ info.scrollHeight = 1000 /\ info.scrollTop = 700
             /\ info.clientHeight = 300
             /\ chat.scrollHeight = 1200 /\ chat.clientHeight = 300)
            => chat'.scrollTop = 900]_vars

C18_Witness ==
    /\ lastRestore.valid
    /\ lastRestore.info.scrollHeight = 1000
    /\ lastRestore.info.scrollTop = 700
    /\ lastRestore.info.clientHeight = 300
    /\ lastRestore.scrollHeight = 1200
    /\ lastRestore.clientHeight = 300
    /\ lastRestore.frames = 2
    /\ chat.scrollTop = 900

\* ------------------------------------------------------------------ properties of init()

\* C20: once the catch block of init() has run, no listener of the
\* extension is registered with eventSource, window.RegExp is the host's
\* compiler, and neither the containment style, nor the visibilitychange
\* listener, nor the blur suppression style is in place.
C20_InitFailsClosed ==
    initFailed =>
        /\ handlers = {}
        /\ windowRegExp \in HostCompilers
        /\ ~containmentStyle
        /\ ~scrollListener
        /\ ~blurStyle

\* ------------------------------------------------------------------ properties of the signal handlers

\* A step that delivers GENERATION_ENDED or GENERATION_STOPPED.
EndSignal == GENERATION_ENDED \/ GENERATION_STOPPED

\* C21 as stated: an end or stop signal received while the controller is
\* not Deferring (regexDisabled is false: Idle or Generating) leaves
\* isGenerating, regexDisabled, regexWasAlreadyDisabled, disabledExtensions
\* and the perf-streaming mode as they were and schedules no reapplication.
C21_EndOutsideDeferringIsNoOp ==
    [][EndSignal /\ ~regexDisabled =>
         UNCHANGED <<isGenerating, regexDisabled, regexWasAlreadyDisabled,
                     disabledExtensions, perfStreaming, timers>>]_vars

\* C21, amended: outside Deferring an end or stop signal does nothing but
\* put isGenerating back to false (Generating -> Idle; nothing at all in
\* Idle): regexDisabled, regexWasAlreadyDisabled, disabledExtensions, the
\* perf-streaming mode, the settings and the statistics are unchanged and no
\* reapplication is scheduled.
C21_EndOutsideDeferringOnlyIdles ==
    [][EndSignal /\ ~regexDisabled =>
         /\ isGenerating' = FALSE
         /\ UNCHANGED <<regexDisabled, regexWasAlreadyDisabled,
                        disabledExtensions, perfStreaming, timers, settings,
                        stats>>]_vars

\* A generation that was started and ended without a token.
C21_Witness ==
    /\ sPhase = "done" /\ sTokens = 0 /\ sEnd \in {"ended", "stopped"}
    /\ ~isGenerating /\ ~regexDisabled /\ sSched = 0 /\ timers = <<>>

\* C22: GENERATION_STARTED with the master switch off or with type 'quiet'
\* leaves isGenerating, regexDisabled, regexWasAlreadyDisabled,
\* disabledExtensions and the statistics unchanged; with the switch on and
\* any other type it sets isGenerating and changes none of the others (nor
\* the perf-streaming mode, the settings or the number of pending timers).
C22_StartedOnlySetsIsGenerating ==
    [][\A type \in Kinds :
         GENERATION_STARTED(type) =>
            IF ~settings.enabled \/ type = "quiet"
            THEN UNCHANGED <<isGenerating, regexDisabled, regexWasAlreadyDisabled,
                             disabledExtensions, stats>>
            ELSE /\ isGenerating' = TRUE
                 /\ Len(timers') = Len(timers)
                 /\ UNCHANGED <<regexDisabled, regexWasAlreadyDisabled,
                                disabledExtensions, stats, perfStreaming,
                                settings>>]_vars

\* A foreground generation has been started from Idle and nothing else has
\* happened in it.
C22_Witness ==
    /\ isGenerating /\ ~regexDisabled /\ settings.enabled
    /\ sPhase = "started" /\ sPure /\ sTokens = 0 /\ nSess = 1
    /\ stats = InitialStats

\* C23: from every reachable state onGenerationStopped and
\* onGenerationEnded lead to the same state: whenever a step is what one of
\* the two handlers does to the settings, disabledExtensions, isGenerating,
\* regexDisabled, regexWasAlreadyDisabled, the statistics, the
\* perf-streaming mode and the pending reapplications, it is also what the
\* other does.
C23_StoppedEqualsEnded ==
    [][EndSignal => (onGenerationEnded /\ onGenerationStopped)]_vars

\* A stop signal has ended a deferring session: the entry was removed and
\* one reapplication scheduled.
C23_Witness ==
    /\ sEnd = "stopped" /\ sPhase = "done" /\ sTokens >= 1
    /\ sAdds = 1 /\ sRemoves = 1 /\ sSched = 1 /\ sPerf /\ ~perfStreaming

\* C24: whenever a delayed reapplication (the setTimeout callback that
\* calls rerenderLastMessage) runs, disabledExtensions holds no 'regex'
\* entry that the controller pushed.
C24_RestoredBeforeReapplication ==
    [][RerenderTimeout =>
         \A i \in 1..Len(owner) : owner[i] \notin {"ctl", "old"}]_vars

\* C25: a token received while isGenerating is false, while the master
\* switch is off, or while regexDisabled is already true changes none of
\* isGenerating, regexDisabled, regexWasAlreadyDisabled, disabledExtensions,
\* the statistics (regexSkipped among them) and the perf-streaming mode.
C25_OnlyFirstTokenActs ==
    [][STREAM_TOKEN_RECEIVED
         /\ (~isGenerating \/ ~settings.enabled \/ regexDisabled) =>
         UNCHANGED <<isGenerating, regexDisabled, regexWasAlreadyDisabled,
                     disabledExtensions, stats, perfStreaming>>]_vars

\* A second token has arrived in a deferring session: one entry pushed,
\* one generation counted.
C25_Witness ==
    /\ sPhase = "token" /\ sTokens = 2 /\ sPure
    /\ isGenerating /\ regexDisabled
    /\ sAdds = 1 /\ stats.regexSkipped = 1

\* ------------------------------------------------------------------ more properties of the renderer

\* A step that scans messages without the host having touched the DOM in
\* it: a message event, MORE_MESSAGES_LOADED, or the delayed rescan.
ScanStep ==
    \/ \E mesId \in MesIdInputs : MessageEvent(mesId)
    \/ MORE_MESSAGES_LOADED
    \/ RescanTimeout

\* The registry holds an entry for placeholder ph with this markup and owner.
StillRegistered(reg, e) ==
    \E j \in 1..Len(reg) :
       /\ reg[j].ph = e.ph
       /\ reg[j].htmlContent = e.htmlContent
       /\ StringOf(reg[j].mesId) = StringOf(e.mesId)

\* C26: a scan leaves every registry entry whose placeholder is attached
\* to its message (the message's DOM was not replaced since it was
\* scanned) in the registry, with the same markup and owner, and leaves
\* the placeholder attached where it was; the number of entries of attached
\* placeholders does not change.
C26_RescanKeepsAttachedEntries ==
    [][ScanStep =>
         \A i \in 1..Len(iframePlaceholders) :
            LET e == iframePlaceholders[i] IN
            placeholders[e.ph].home # 0 =>
               /\ StillRegistered(iframePlaceholders', e)
               /\ placeholders'[e.ph].home = placeholders[e.ph].home]_vars

\* ------------------------------------------------------------------ more properties of the cache

\* C27: the saved reference is null or a compiler of the host, never the
\* wrapper; window.RegExp is the wrapper exactly when a reference is saved,
\* and then the saved reference is the compiler the wrapper was installed
\* over; ticking cacheRegex while the wrapper is installed changes neither
\* of the two, nor the cache, nor the counters.
C27_SingleWrapper ==
    /\ [](/\ OriginalRegExp \in HostCompilers \cup {"null"}
          /\ windowRegExp \in HostCompilers \cup {"Cached"}
          /\ (windowRegExp = "Cached") <=> (OriginalRegExp # "null")
          /\ windowRegExp = "Cached" => OriginalRegExp = installedOver)
    /\ [][ToggleCacheRegex(TRUE) /\ OriginalRegExp # "null" =>
            UNCHANGED <<windowRegExp, OriginalRegExp, regexCache, stats, made>>]_vars

\* enableRegexCache has just run on an installed wrapper that holds entries.
C27_Witness ==
    /\ lastOp = "enable"
    /\ windowRegExp = "Cached"
    /\ OriginalRegExp = "Shim"
    /\ Len(regexCache) = CACHE_MAX_SIZE

\* C28: a constructor request through the wrapper that returns adds one to
\* regexCacheHits when its key was in the cache and one to regexCacheMisses
\* otherwise, and leaves the other counter alone; the two counters add up to
\* the number of constructor requests that have returned, and the cache
\* holds no more entries than there were misses since it was last cleared.
C28_OneCounterPerRequest ==
    /\ [](/\ stats.regexCacheHits + stats.regexCacheMisses = tally.completed
          /\ Len(regexCache) <= tally.sinceClear)
    /\ [][\A pattern \in PatternInputs, flags \in FlagInputs :
            tally'.completed # tally.completed /\ NewRegExp(pattern, flags) =>
                IF cacheHas(cacheKey(pattern, flags))
                THEN /\ stats'.regexCacheHits = stats.regexCacheHits + 1
                     /\ stats'.regexCacheMisses = stats.regexCacheMisses
                ELSE /\ stats'.regexCacheMisses = stats.regexCacheMisses + 1
                     /\ stats'.regexCacheHits = stats.regexCacheHits]_vars

\* A hit and three misses have returned, one of the misses since the latest
\* clear().
C28_Witness ==
    /\ windowRegExp = "Cached"
    /\ stats.regexCacheHits = 1
    /\ stats.regexCacheMisses = 3
    /\ tally.completed = 4
    /\ tally.sinceClear = 1
    /\ Len(regexCache) = 1

\* ------------------------------------------------------------------ properties of the height negotiation

\* Iframes that are the active iframe of a registry entry and whose window
\* is w.
SurfacesOf(w) ==
    {iframe \in 1..MaxIframes :
        /\ \E i \in 1..Len(iframePlaceholders) : iframePlaceholders[i].iframe = iframe
        /\ contentWindow(iframe) = w}

C30_EnterCreatesLeaveDestroys ==
    /\ [][\A ph \in Registered, isIntersecting \in BOOLEAN :
            IntersectionCallback(ph, isIntersecting) =>
               LET e == EntryOf(ph) IN
               IF isIntersecting /\ e.iframe = 0
               THEN LET new == stats.iframesCreated + 1 IN
                    /\ stats' = [stats EXCEPT !.iframesCreated = @ + 1]
                    /\ placeholders'[ph].kids = {new}
                    /\ \A i \in 1..Len(iframePlaceholders') :
                          iframePlaceholders'[i].iframe = new <=>
                              iframePlaceholders'[i].ph = ph
                    /\ iframeSrcdoc'[new] = buildIframeSrcdoc(e.htmlContent)
                    /\ iframeSrcdoc[new] = ""
               ELSE IF ~isIntersecting /\ e.iframe # 0
               THEN /\ stats' = [stats EXCEPT !.iframesDestroyed = @ + 1]
                    /\ placeholders'[ph].kids = {}
                    /\ \A i \in 1..Len(iframePlaceholders') :
                          iframePlaceholders'[i].iframe # e.iframe
               ELSE IF ~isIntersecting
               THEN UNCHANGED <<stats, placeholders, iframePlaceholders,
                                iframeSrcdoc, mesText>>
               ELSE TRUE]_vars
    /\ [][\A i \in 1..Len(iframePlaceholders), j \in 1..Len(iframePlaceholders') :
            iframePlaceholders[i].ph = iframePlaceholders'[j].ph =>
                iframePlaceholders[i].htmlContent = iframePlaceholders'[j].htmlContent]_vars

\* The one placeholder has left the viewport and entered it again: its
\* first iframe is gone, its second holds the document of the stored markup.
C30_Witness ==
    /\ Len(placeholders) = 1
    /\ Registered = {1}
    /\ EntryOf(1).iframe = 2
    /\ placeholders[1].kids = {2}
    /\ stats.iframesCreated = 2
    /\ stats.iframesDestroyed = 1
    /\ iframeSrcdoc[1] = ""
    /\ iframeSrcdoc[2] = buildIframeSrcdoc(EntryOf(1).htmlContent)
    /\ EntryOf(1).htmlContent = DecodeEntities(HtmlEscaped)

\* ------------------------------------------------------------------ properties of the reapplication pass

\* C31: the delayed callback schedules nothing; when chat is empty, its last
\* entry is a user message or the element of the last message is not in the
\* DOM, it writes no element and emits nothing; otherwise it writes the
\* element of the last message, and only that one, and emits one
\* CHARACTER_MESSAGE_RENDERED with its index; the element of a user message
\* is never written.
C31_ReapplicationDegradesSilently ==
    [][RerenderTimeout =>
        LET lastMesId == Len(chatMessages) - 1
            skip == \/ lastMesId < 0
                    \/ chatMessages[lastMesId + 1].is_user
                    \/ ~mesElements[lastMesId].present IN
        /\ Len(timers') = Len(timers) - 1
        /\ chatMessages' = chatMessages
        /\ IF skip
           THEN UNCHANGED <<mesElements, emitted, rewrites>>
           ELSE /\ emitted' = Append(emitted, lastMesId)
                /\ rewrites' = [rewrites EXCEPT ![lastMesId] = @ + 1]
                /\ mesElements' = [mesElements EXCEPT
                                     ![lastMesId].html = messageFormatting(lastMesId)]
        /\ \A k \in 0..(MaxChat - 1) :
              rewrites'[k] # rewrites[k] => ~chatMessages[k + 1].is_user]_vars

\* The callback of the one session has run while the element of the last
\* message, a character's, was not in the DOM: nothing was written or emitted.
C31_Witness ==
    /\ nSess = 1 /\ sPhase = "done" /\ sSched = 1 /\ sRan = 1
    /\ timers = <<>>
    /\ Len(chatMessages) = 2
    /\ ~chatMessages[2].is_user
    /\ ~mesElements[1].present
    /\ mesElements[0].present
    /\ emitted = <<>>
    /\ rewrites = [k \in 0..(MaxChat - 1) |-> 0]

\* ------------------------------------------------------------------ properties of the counters

\* The step appends an entry 'regex' of the controller to disabledExtensions.
ControllerAppends ==
    /\ Len(disabledExtensions') = Len(disabledExtensions) + 1
    /\ disabledExtensions'[Len(disabledExtensions')] = "regex"
    /\ Len(owner') = Len(owner) + 1
    /\ owner'[Len(owner')] = "ctl"

\* C32: regexSkipped goes up by one in the steps in which the controller
\* appends 'regex' to disabledExtensions, and in no other step; a token
\* does so exactly when it is the first of a session, deferRegexDuringStreaming
\* is on, disabledExtensions is an array and 'regex' is not in it.
C32_SkippedCountsAppends ==
    /\ [][IF ControllerAppends
          THEN stats'.regexSkipped = stats.regexSkipped + 1
          ELSE stats'.regexSkipped = stats.regexSkipped]_vars
    /\ [][STREAM_TOKEN_RECEIVED =>
            (stats'.regexSkipped # stats.regexSkipped <=>
                /\ getSettings(settings).enabled
                /\ isGenerating
                /\ ~regexDisabled
                /\ getSettings(settings).deferRegexDuringStreaming
                /\ isArray
                /\ ~includes(disabledExtensions, "regex"))]_vars

\* The first token of a session has been handled with deferral on while
\* disabledExtensions was undefined: the controller is Deferring and nothing
\* was counted.
C32_Witness ==
    /\ listKind = "undefined"
    /\ sPhase = "token"
    /\ sPure
    /\ sDefer
    /\ regexDisabled
    /\ isGenerating
    /\ stats.regexSkipped = 0
    /\ disabledExtensions = <<>>

\* ------------------------------------------------------------------ the components side by side

\* A behaviour of the controller, of the cache, of the renderer or of the
\* scroll preservation: the components share the settings object and the
\* stats object only, and each writes its own counters.
StatsInit == Init \/ CacheInit \/ FrameInit \/ ScrollInit

StatsNext ==
    \/ part = "controller" /\ Next
    \/ part = "cache" /\ CacheNext
    \/ part = "renderer" /\ FrameNext
    \/ part = "scroll" /\ ScrollNext

StatsSpec == StatsInit /\ [][StatsNext]_vars

Counters ==
    {"regexSkipped", "regexCacheHits", "regexCacheMisses", "iframesCreated",
     "iframesDestroyed", "scrollRestored"}

\* C33: no step makes a counter of stats smaller.
C33_CountersNeverDecrease ==
    [][\A k \in Counters : stats'[k] >= stats[k]]_vars

\* The renderer was switched off after two iframes had been created and one
\* destroyed: the registry is empty and the counters are as they were.
C33_Witness ==
    /\ part = "renderer"
    /\ quietOpen = FALSE
    /\ ~settings.lightHtmlRenderer
    /\ iframePlaceholders = <<>>
    /\ iframeObserver = "null"
    /\ stats.iframesCreated = 2
    /\ stats.iframesDestroyed = 1

\* ------------------------------------------------------------------ more properties of the controller

\* C34: the class perf-streaming is on the body only while regexDisabled is
\* true, and a GENERATION_ENDED or GENERATION_STOPPED that finds the
\* controller deferring leaves the class off, whatever
\* reduceStreamingEffects was set to in between.
C34_PerfStreamingOnlyWhileDeferring ==
    /\ [](perfStreaming => regexDisabled)
    /\ [][EndSignal /\ regexDisabled => ~regexDisabled' /\ ~perfStreaming']_vars

\* A session that streamed with the class on has ended after
\* reduceStreamingEffects was switched off during the stream.
C34_Witness ==
    /\ sPhase = "done"
    /\ sPerf
    /\ ~sPure
    /\ ~settings.reduceStreamingEffects
    /\ settings.enabled
    /\ ~perfStreaming
    /\ ~regexDisabled
    /\ nSess = 1

\* ------------------------------------------------------------------ properties of the cache under sharing

\* C35: a constructor request leaves the lastIndex of every object that is
\* in the cache before and after it as its holder left it, so a caller that
\* iterates with a cached object goes on from where it was.
C35_RequestKeepsHoldersCursor ==
    [][\A pattern \in PatternInputs, flags \in FlagInputs :
          NewRegExp(pattern, flags) =>
             \A i \in 1..Len(regexCache), j \in 1..Len(regexCache') :
                regexCache[i].id = regexCache'[j].id =>
                    regexCache'[j].lastIndex = regexCache[i].lastIndex]_vars

\* C36: a constructor request is served from the cache only when the host
\* compiler would compile it, and to an object with the source and the
\* flags of the cached one.
C36_KeyInjective ==
    [][\A pattern \in KeyPatternInputs, flags \in KeyFlagInputs :
          NewRegExp(pattern, flags) /\ cacheHas(cacheKey(pattern, flags)) =>
             LET cached == regexCache[cacheAt(cacheKey(pattern, flags))] IN
             /\ ~NativeThrows(pattern, flags)
             /\ cached.source = NativeSource(pattern)
             /\ cached.flags = NativeFlags(pattern, flags)]_vars

\* C37: a constructor request for a key that is not in the cache and that
\* the host compiler rejects leaves the entries of the cache, their order
\* and the counters as they were.
C37_FailedCompileLeavesCache ==
    [][\A pattern \in PatternInputs, flags \in FlagInputs :
          /\ ~cacheHas(cacheKey(pattern, flags))
          /\ NativeThrows(pattern, flags)
          /\ tally'.threw
          /\ NewRegExp(pattern, flags)
          => UNCHANGED <<regexCache, made, stats, windowRegExp, OriginalRegExp>>]_vars

\* The latest request ended in a SyntaxError while the cache was full.
C37_Witness ==
    /\ windowRegExp = "Cached"
    /\ tally.threw
    /\ Len(regexCache) = CACHE_MAX_SIZE
    /\ stats.regexCacheMisses = CACHE_MAX_SIZE
    /\ stats.regexCacheHits = 0

\* ------------------------------------------------------------------ the iframe counters

\* Registry entries that have an active iframe.
ActiveEntries ==
    {i \in 1..Len(iframePlaceholders) : iframePlaceholders[i].iframe # 0}

\* C38: iframesCreated - iframesDestroyed is the number of registry entries
\* with an active iframe.
C38_CountersMatchActiveIframes ==
    stats.iframesCreated - stats.iframesDestroyed = Cardinality(ActiveEntries)

\* ------------------------------------------------------------------ background generations

\* C39: when a background generation ends or is stopped while the
\* controller is deferring for a foreground one, the controller goes on
\* deferring with isGenerating true, disabledExtensions keeps its entries
\* and no reapplication is scheduled.
C39_QuietEndLeavesForeground ==
    [][(\E stopped \in BOOLEAN : QuietEnded(stopped)) /\ isGenerating /\ regexDisabled =>
          /\ isGenerating'
          /\ regexDisabled'
          /\ disabledExtensions' = disabledExtensions
          /\ timers' = timers]_vars

\* ------------------------------------------------------------------ the cache across a disable

\* C40: while the cacheRegex setting is off, window.RegExp is the host's
\* compiler (the one the wrapper was installed over, and the same one for
\* as long as the setting stays off) and the cache is empty; the cache has
\* entries only while the wrapper is installed; the step that switches the
\* setting on again starts from an empty cache; and every object the
\* wrapper returns was compiled after the latest clearing of the cache.
C40_DisabledCacheStaysEmpty ==
    /\ [](~settings.cacheRegex =>
            /\ windowRegExp \in HostCompilers
            /\ OriginalRegExp = "null"
            /\ regexCache = <<>>)
    /\ [](regexCache # <<>> => windowRegExp = "Cached" /\ OriginalRegExp # "null")
    /\ [](lastReq.valid => lastReq.ret > made - tally.sinceClear)
    /\ [][/\ (settings.cacheRegex /\ ~settings.cacheRegex' /\ OriginalRegExp # "null"
               => windowRegExp' = installedOver)
          /\ (~settings.cacheRegex /\ ~settings.cacheRegex'
               => windowRegExp' = windowRegExp)
          /\ (~settings.cacheRegex /\ settings.cacheRegex'
               => regexCache = <<>> /\ regexCache' = <<>>)]_vars

\* The wrapper was switched off with entries in the cache and on again, and
\* a request has since been served from the new cache.
C40_Witness ==
    /\ settings.cacheRegex
    /\ windowRegExp = "Cached"
    /\ lastReq.valid
    /\ lastReq.hit
    /\ tally.sinceClear > 0
    /\ made > tally.sinceClear

====
